---------------------------- MODULE Spec2Model ----------------------------
(***************************************************************************)
(* Length-limited prefix codes (stbrumme/length-limited-prefix-codes).     *)
(*                                                                         *)
(* The library is a set of pure functions.  Each function is an operator   *)
(* computed the way the C code computes it; a call is one action that      *)
(* takes the caller's buffers from "idle" to the state the function        *)
(* leaves behind ("returned"), or to "hung" when the function provably     *)
(* never returns, or to "undefined" when it runs into undefined behaviour  *)
(* that the model does not follow any further.                             *)
(*                                                                         *)
(* C arrays are functions on 0 .. n-1, so that A[0], histNumBits[0] and    *)
(* codeLengths[i] mean what they mean in the source.                       *)
(***************************************************************************)
EXTENDS Integers, Sequences, FiniteSets, TLC

\* ------------------------------------------------------------------ bounds
\* longest array handed to moffatSortedInPlace in SpecMoffat
MaxSorted == 5
\* largest weight in an array handed to moffatSortedInPlace in SpecMoffat
MaxWeight == 5
\* SpecReduce: longest code length in a small length histogram
MaxOldLength == 5
\* SpecReduce: most codes of one length in a small length histogram
MaxPerLength == 4
\* SpecReduce: extra levels of the long one-sided codes beyond the 32 bits of
\* an unsigned int (their longest code has IntBits + 1 + this many bits)
MaxDeepLevels == 1

\* Spec: most symbols in a histogram (numCodes)
MaxCodes == 4
\* Spec: largest count in a histogram
MaxCount == 3
\* Spec: largest of the small length limits
MaxLimit == 3
\* Spec: what every cell of the output array holds before the call
StaleLength == 9
\* Spec: most symbols in one of the few larger histograms
MaxLargeCodes == 5
\* SpecHeap: the slots of the heap (numCodes)
MaxSlots == 4
\* SpecHeap: the largest of the keys 0 .. MaxKey
MaxKey == 1
\* SpecWide: most symbols in a histogram or weights in an array
MaxWideCodes == 4

\* ------------------------------------------------------ program constants
\* unsigned int histNumBits[64]
HistSize == 64
\* bits of int and unsigned int
IntBits == 32

VARIABLES
  pc,            \* "idle" | "returned" | "repeated" | "hung" | "undefined"
  call,          \* name of the function that was called, "none" before
  result,        \* the function's return value
  A,             \* moffatSortedInPlace: the in/out array
  newMaxLength,  \* limited*InPlace: the length limit asked for
  oldMaxLength,  \* limited*InPlace: the longest length on entry
  histNumBits,   \* limited*InPlace: the in/out histogram of bit lengths
  maxLength,     \* the kernels: the length limit
  histogram,     \* the kernels: how often each symbol was found
  codeLengths,   \* the kernels: the output array
  before,        \* the in/out buffer as it was when the call was made
  theHeap,       \* the heap functions: the Heap they work on
  paired         \* the heap functions: the key each value was inserted with

reducerVars == <<newMaxLength, oldMaxLength, histNumBits>>
kernelVars == <<maxLength, histogram, codeLengths>>
heapVars == <<theHeap, paired>>
vars == <<pc, call, result, A, reducerVars, kernelVars, before, heapVars>>

\* ----------------------------------------------------------------- helpers
Range(f) == { f[x] : x \in DOMAIN f }

\* the arrays of length n over S
Arrays(n, S) == [0 .. n - 1 -> S]

RECURSIVE SumOver(_, _)
SumOver(f, D) ==
  IF D = {} THEN 0
  ELSE LET x == CHOOSE y \in D : TRUE IN f[x] + SumOver(f, D \ {x})

\* f[lo] + ... + f[hi], added up by halves
RECURSIVE RangeSum(_, _, _)
RangeSum(f, lo, hi) ==
  IF lo > hi THEN 0
  ELSE IF lo = hi THEN f[lo]
  ELSE RangeSum(f, lo, (lo + hi) \div 2) + RangeSum(f, ((lo + hi) \div 2) + 1, hi)

Max(a, b) == IF a >= b THEN a ELSE b

\* F of the value of e: e is computed once, before F uses it
Bind(e, F(_)) == CHOOSE r \in { F(v) : v \in {e} } : TRUE

\* numCodes, the size of a histogram and of its output array
NumCodes(hist) == Cardinality(DOMAIN hist)

\* ------------------------------------------------- machine integers
\* TLC's integers end at 2^31 - 1, so the wider C values are kept apart:
\*  - an unsigned int cell holds the signed reading of its 32 bits (-1 stands
\*    for 0xFFFFFFFF); + and - on that reading are C's arithmetic modulo
\*    2^32, "== 0" is unchanged and "> 0" reads "# 0";
\*  - an unsigned long long is three limbs of 30 bits, least significant
\*    first, reduced modulo 2^64 where C reduces it.
WBase == 1073741824
WZero == <<0, 0, 0>>
WOne == <<1, 0, 0>>

\* a natural number below 2^31 as limbs
WNat(n) == <<n % WBase, n \div WBase, 0>>

\* what the first and the second limb of a + b carry into the next one
AddCarry1(a, b) == (a[1] + b[1]) \div WBase
AddCarry2(a, b) == (a[2] + b[2] + AddCarry1(a, b)) \div WBase

WAdd(a, b) ==
  <<(a[1] + b[1]) % WBase,
    (a[2] + b[2] + AddCarry1(a, b)) % WBase,
    a[3] + b[3] + AddCarry2(a, b)>>

WTrunc64(w) == <<w[1], w[2], w[3] % 16>>
WTrunc32(w) == <<w[1], w[2] % 4, 0>>
WNot64(w) == <<WBase - 1 - w[1], WBase - 1 - w[2], 15 - w[3]>>
WLimb(w, k) == IF k \in 1 .. 3 THEN w[k] ELSE 0

\* limb k of w * 2^(30 * q + r)
ShlLimb(w, k, q, r) ==
  (WLimb(w, k - q) % (2 ^ (30 - r))) * (2 ^ r) + (WLimb(w, k - q - 1) \div (2 ^ (30 - r)))

\* w * 2^n (what does not fit in three limbs is dropped)
WShl(w, n) ==
  <<ShlLimb(w, 1, n \div 30, n % 30),
    ShlLimb(w, 2, n \div 30, n % 30),
    ShlLimb(w, 3, n \div 30, n % 30)>>

\* limb k of w \div 2^(30 * q + r)
ShrLimb(w, k, q, r) ==
  (WLimb(w, k + q) \div (2 ^ r)) + (WLimb(w, k + q + 1) % (2 ^ r)) * (2 ^ (30 - r))

\* w \div 2^n
WShr(w, n) ==
  <<ShrLimb(w, 1, n \div 30, n % 30),
    ShrLimb(w, 2, n \div 30, n % 30),
    ShrLimb(w, 3, n \div 30, n % 30)>>

WLess(a, b) == \E k \in 1 .. 3 : a[k] < b[k] /\ \A j \in (k + 1) .. 3 : a[j] = b[j]
WLeq(a, b) == ~WLess(b, a)

\* unsigned long long arithmetic
U64Add(a, b) == WTrunc64(WAdd(a, b))
U64Sub(a, b) == WTrunc64(WAdd(WAdd(a, WNot64(b)), WOne))
U64Shl(a, n) == WTrunc64(WShl(a, n))

\* the value of an unsigned int cell, widened (zero-extended) to 64 bits
U32Value(v) ==
  IF v >= 0 THEN WNat(v)
  ELSE <<((v + 2147483647) + 1) % WBase, (((v + 2147483647) + 1) \div WBase) + 2, 0>>

\* the int that the difference of two unsigned int cells converts to
I32Sub(a, b) ==
  IF (a >= 0) = (b >= 0) THEN a - b
  ELSE IF a >= 0
  THEN IF a > b + 2147483647 THEN ((a - 2147483647) - 1) - ((b + 2147483647) + 1)
       ELSE a - b
  ELSE IF b > (a + 2147483647) + 1 THEN ((a + 2147483647) + 1) + ((2147483647 - b) + 1)
       ELSE a - b

\* the sum of two unsigned int cells, an unsigned int
U32Add(a, b) ==
  IF a >= 0 /\ b >= 0
  THEN IF a > 2147483647 - b
       THEN ((a - 2147483647) - 1) + ((b - 2147483647) - 1)
       ELSE a + b
  ELSE IF a < 0 /\ b < 0
  THEN IF a >= (0 - 2147483647 - 1) - b
       THEN a + b
       ELSE ((a + 2147483647) + 1) + ((b + 2147483647) + 1)
  ELSE a + b

\* a < b for two unsigned int cells
U32Less(a, b) == IF (a >= 0) = (b >= 0) THEN a < b ELSE a >= 0

\* ascending order of unsigned int cells
IsAscending(a) == \A k \in DOMAIN a : (k + 1) \in DOMAIN a => ~U32Less(a[k + 1], a[k])

\* an unsigned int cell divided by 2
U32Half(v) == IF v >= 0 THEN v \div 2 ELSE ((v \div 2) + 2147483647) + 1

\* (unsigned char) of a small integer
U8(v) == v % 256

\* what a shift of a 32-bit operand by 32 bits or more (undefined in C) does:
\* the processor takes the count modulo 32 (x86, AArch64) or shifts every
\* bit out (ARM32)
OversizedShifts == {"masked", "cleared"}

\* (unsigned int) v << n
U32Shl(v, n, oversized) ==
  IF n < IntBits THEN WTrunc32(WShl(U32Value(v), n))
  ELSE IF oversized = "masked" THEN WTrunc32(WShl(U32Value(v), n % IntBits))
  ELSE WZero

\* t[lo] + ... + t[hi] of wide numbers, added up by halves
RECURSIVE WSum(_, _, _)
WSum(t, lo, hi) ==
  IF lo > hi THEN WZero
  ELSE IF lo = hi THEN t[lo]
  ELSE WAdd(WSum(t, lo, (lo + hi) \div 2), WSum(t, ((lo + hi) \div 2) + 1, hi))

\* sum_{k in l..top} bits[k] * 2^(top - k), the Kraft sum in units of 2^-top
KraftUnits(bits, top, l) ==
  WSum([k \in l .. top |-> WShl(U32Value(bits[k]), top - k)], l, top)

\* ------------------------------------------------- float (IEEE 754 single)
\* A float is [neg, man, exp] with value (-1)^neg * man * 2^exp, where man is
\* 0 or has exactly ManBits bits.  Every operation computes the exact result
\* and rounds it once to nearest, ties to even, as the hardware does; the
\* values of this program stay far from overflow and underflow.
ManBits == 24
FZero == [neg |-> FALSE, man |-> 0, exp |-> 0]

\* the number of bits of n, 0 <= n < 2^31
BitLen(n) == CHOOSE k \in 0 .. 31 : (k = 0 \/ 2 ^ (k - 1) <= n) /\ (k = 31 \/ n < 2 ^ k)

RECURSIVE WTopLimb(_, _)
WTopLimb(w, k) == IF k = 0 \/ w[k] # 0 THEN k ELSE WTopLimb(w, k - 1)

WBitLenFrom(w, k) == IF k = 0 THEN 0 ELSE 30 * (k - 1) + BitLen(w[k])
WBitLen(w) == WBitLenFrom(w, WTopLimb(w, 3))

\* the value of limbs that hold less than 2^30
WLow(w) == w[1]

\* a mantissa that rounding has carried into one bit more is renormalised
FPack(neg, man, exp) ==
  IF man = 2 ^ ManBits THEN [neg |-> neg, man |-> 2 ^ (ManBits - 1), exp |-> exp + 1]
  ELSE [neg |-> neg, man |-> man, exp |-> exp]

\* round to nearest, ties to even: q is what is kept, above and tie tell
\* whether what is cut off is more than, or exactly, half a unit of q
RoundedUp(q, above, tie) == IF above \/ (tie /\ q % 2 = 1) THEN q + 1 ELSE q

WRoundedUp(q, rem, half) == RoundedUp(q, WLess(half, rem), rem = half)

\* w has k bits more than a mantissa; q is w without them
FCut(neg, w, e, k, q) ==
  FPack(neg, WRoundedUp(q, U64Sub(w, WShl(WNat(q), k)), WShl(WOne, k - 1)), e + k)

FRoundTo(neg, w, e, k) ==
  IF k <= 0 THEN [neg |-> neg, man |-> WLow(WShl(w, 0 - k)), exp |-> e + k]
  ELSE FCut(neg, w, e, k, WLow(WShr(w, k)))

\* the float nearest to (-1)^neg * n * 2^e for n < 2^31, in plain integers
FCutSmall(neg, n, e, k) ==
  FPack(neg, RoundedUp(n \div (2 ^ k), n % (2 ^ k) > 2 ^ (k - 1), n % (2 ^ k) = 2 ^ (k - 1)),
        e + k)

FRoundSmallTo(neg, n, e, k) ==
  IF k <= 0 THEN [neg |-> neg, man |-> n * (2 ^ (0 - k)), exp |-> e + k]
  ELSE FCutSmall(neg, n, e, k)

FRoundSmall(neg, n, e) ==
  IF n = 0 THEN FZero ELSE FRoundSmallTo(neg, n, e, BitLen(n) - ManBits)

\* the float nearest to (-1)^neg * w * 2^e, for w < 2^64
FRound(neg, w, e) ==
  IF w[2] = 0 /\ w[3] = 0 THEN FRoundSmall(neg, WLow(w), e)
  ELSE FRoundTo(neg, w, e, WBitLen(w) - ManBits)

\* (float) of an int
FInt(i) == FRoundSmall(i < 0, IF i < 0 THEN 0 - i ELSE i, 0)

FNeg(a) == [a EXCEPT !.neg = ~a.neg]

\* a * b for a, b < 2^24 in halves of 12 bits: the product is
\* MulHigh * 2^24 + MulLow
MulCross(a, b) == (a \div 4096) * (b % 4096) + (a % 4096) * (b \div 4096)
MulLowSum(a, b) == (a % 4096) * (b % 4096) + (MulCross(a, b) % 4096) * 4096
MulLow(a, b) == MulLowSum(a, b) % (2 ^ ManBits)
MulHigh(a, b) ==
  (a \div 4096) * (b \div 4096) + (MulCross(a, b) \div 4096)
    + (MulLowSum(a, b) \div (2 ^ ManBits))

\* the product of two mantissas has 2 * ManBits bits, or one less
FRoundProduct(neg, high, low, e) ==
  IF high >= 2 ^ (ManBits - 1)
  THEN FPack(neg, RoundedUp(high, low > 2 ^ (ManBits - 1), low = 2 ^ (ManBits - 1)),
             e + ManBits)
  ELSE FPack(neg,
             RoundedUp(2 * high + (low \div (2 ^ (ManBits - 1))),
                       low % (2 ^ (ManBits - 1)) > 2 ^ (ManBits - 2),
                       low % (2 ^ (ManBits - 1)) = 2 ^ (ManBits - 2)),
             e + ManBits - 1)

FMul(a, b) ==
  IF a.man = 0 \/ b.man = 0 THEN FZero
  ELSE FRoundProduct(a.neg # b.neg, MulHigh(a.man, b.man), MulLow(a.man, b.man),
                     a.exp + b.exp)

\* n \div 2^d with the last bit set when the division cuts a one off
\* (the sticky bit of the hardware)
Jammed(n, d) ==
  IF n % (2 ^ d) # 0 /\ (n \div (2 ^ d)) % 2 = 0 THEN (n \div (2 ^ d)) + 1
  ELSE n \div (2 ^ d)

\* hi + lo for |hi| >= |lo| > 0, the exponents d apart, with three more
\* bits than a mantissa has: lo is below a quarter of hi's last place when d
\* is more than ManBits + 2
FAddAligned(hi, lo, d) ==
  IF d > ManBits + 2 THEN hi
  ELSE FRoundSmall(hi.neg,
                   IF hi.neg = lo.neg THEN hi.man * 8 + Jammed(lo.man * 8, d)
                   ELSE hi.man * 8 - Jammed(lo.man * 8, d),
                   hi.exp - 3)

FAdd(a, b) ==
  IF a.man = 0 THEN b
  ELSE IF b.man = 0 THEN a
  ELSE IF a.exp < b.exp \/ (a.exp = b.exp /\ a.man < b.man)
  THEN FAddAligned(b, a, b.exp - a.exp)
  ELSE FAddAligned(a, b, a.exp - b.exp)

FSub(a, b) == FAdd(a, FNeg(b))

\* a < b: rounding a - b never changes its sign
FIsNegative(a) == a.neg /\ a.man # 0
FLess(a, b) == FIsNegative(FSub(a, b))

\* long division: steps more quotient bits of [q, r], for r < man < 2^ManBits
\* and steps <= 7
DivideBits(man, steps, q, r) ==
  [q |-> q * (2 ^ steps) + ((r * (2 ^ steps)) \div man), r |-> (r * (2 ^ steps)) % man]

DivideMore(man, steps, d) == DivideBits(man, steps, d.q, d.r)

\* floor(2^(ManBits - 1) * 2^(ManBits + 2) / man) in 7 + 7 + 7 + 5 quotient
\* bits, [q, r]
DivideOne(man, q, r) ==
  DivideMore(man, 5, DivideMore(man, 7, DivideMore(man, 7, DivideBits(man, 7, q, r))))

\* 1.0f / a for a > 0: two more quotient bits than a float keeps, and one
\* bit that tells whether the division left a remainder
FRoundQuotient(d, exp) ==
  FRoundSmall(FALSE, 2 * d.q + (IF d.r = 0 THEN 0 ELSE 1), 0 - (2 * ManBits + 2) - exp)

\* 1.0f / 0 is +infinity, which this program computes and never uses; 2^128
\* stands for it
FInfinity == [neg |-> FALSE, man |-> 2 ^ (ManBits - 1), exp |-> 128 - (ManBits - 1)]

FReciprocal(a) ==
  IF a.man = 0 THEN FInfinity
  ELSE FRoundQuotient(DivideOne(a.man, 0, 2 ^ (ManBits - 1)), a.exp)

\* the integer part of a, towards zero (what a conversion to an integer type keeps)
FMagnitude(a) ==
  IF a.exp >= 0 THEN a.man * (2 ^ a.exp)
  ELSE IF a.exp <= 0 - ManBits THEN 0
  ELSE a.man \div (2 ^ (0 - a.exp))

FTruncate(a) == IF a.neg THEN 0 - FMagnitude(a) ELSE FMagnitude(a)

\* ------------------------------------------------------------ moffat.c
\* phase 1 (moffat.c 31-62): one round of the for loop, both children.
\* st = [A, leaf, root]; next is the loop counter.
MoffatTakesRootWhenHeavier(n, arr, leaf, root, next) ==
  leaf >= n \/ (root < next /\ U32Less(arr[leaf], arr[root]))

MoffatTakesRoot(n, arr, leaf, root, next) ==
  leaf >= n \/ (root < next /\ U32Less(arr[root], arr[leaf]))

\* first child (assign to A[next]) (moffat.c 37-48)
MoffatFirstChild(n, st, next) ==
  IF MoffatTakesRoot(n, st.A, st.leaf, st.root, next)
  THEN [A |-> [[st.A EXCEPT ![next] = st.A[st.root]] EXCEPT ![st.root] = next],
        leaf |-> st.leaf, root |-> st.root + 1]
  ELSE [A |-> [st.A EXCEPT ![next] = st.A[st.leaf]],
        leaf |-> st.leaf + 1, root |-> st.root]

\* the weight of the second child: A[root] or A[leaf] (moffat.c 51-61)
MoffatSecondWeight(n, st, next) ==
  IF MoffatTakesRoot(n, st.A, st.leaf, st.root, next) THEN st.A[st.root] ELSE st.A[st.leaf]

\* second child (add to A[next]) (moffat.c 50-61); A[next] is an unsigned int
MoffatSecondChild(n, st, next) ==
  IF MoffatTakesRoot(n, st.A, st.leaf, st.root, next)
  THEN [A |-> [[st.A EXCEPT ![next] = U32Add(st.A[next], st.A[st.root])]
                 EXCEPT ![st.root] = next],
        leaf |-> st.leaf, root |-> st.root + 1]
  ELSE [A |-> [st.A EXCEPT ![next] = U32Add(st.A[next], st.A[st.leaf])],
        leaf |-> st.leaf + 1, root |-> st.root]

MoffatPhase1Step(n, st, next) ==
  MoffatSecondChild(n, MoffatFirstChild(n, st, next), next)

RECURSIVE MoffatPhase1(_, _, _)
MoffatPhase1(n, st, next) ==
  IF next < n - 1 THEN MoffatPhase1(n, MoffatPhase1Step(n, st, next), next + 1)
  ELSE st.A

\* phase 2 (moffat.c 64-68): parent indices become depths of internal nodes
RECURSIVE MoffatPhase2Loop(_, _)
MoffatPhase2Loop(arr, j) ==
  IF j >= 0 THEN MoffatPhase2Loop([arr EXCEPT ![j] = arr[arr[j]] + 1], j - 1)
  ELSE arr

MoffatPhase2(n, arr) == MoffatPhase2Loop([arr EXCEPT ![n - 2] = 0], n - 3)

\* phase 3 (moffat.c 70-94): spread the leaf depths from the back.
\* the inner while loops of one round of "while (avail > 0)"
RECURSIVE MoffatCountUsed(_, _, _, _)
MoffatCountUsed(arr, root2, depth, used) ==
  IF root2 >= 0 /\ arr[root2] = depth
  THEN MoffatCountUsed(arr, root2 - 1, depth, used + 1)
  ELSE [root2 |-> root2, used |-> used]

\* a variant that puts every leaf one level too deep
RECURSIVE MoffatFillLeavesDeeper(_, _, _, _, _)
MoffatFillLeavesDeeper(arr, next, avail, used, depth) ==
  IF avail > used
  THEN MoffatFillLeavesDeeper([arr EXCEPT ![next] = depth + 1], next - 1, avail - 1, used, depth)
  ELSE [A |-> arr, next |-> next]

RECURSIVE MoffatFillLeaves(_, _, _, _, _)
MoffatFillLeaves(arr, next, avail, used, depth) ==
  IF avail > used
  THEN MoffatFillLeaves([arr EXCEPT ![next] = depth], next - 1, avail - 1, used, depth)
  ELSE [A |-> arr, next |-> next]

RECURSIVE MoffatPhase3(_, _, _, _, _)
MoffatPhase3(arr, avail, depth, root2, next) ==
  IF avail > 0
  THEN LET c == MoffatCountUsed(arr, root2, depth, 0)
           f == MoffatFillLeaves(arr, next, avail, c.used, depth)
       IN  MoffatPhase3(f.A, 2 * c.used, depth + 1, c.root2, f.next)
  ELSE arr

\* moffatSortedInPlace (moffat.c 17-98): [A, result]
MoffatSortedInPlaceReturnsLast(n, arr) ==
  IF n <= 0 THEN [A |-> arr, result |-> 0]
  ELSE IF n = 1 THEN [A |-> [arr EXCEPT ![0] = 1], result |-> 1]
  ELSE LET p1 == MoffatPhase1(n, [A |-> arr, leaf |-> 0, root |-> 0], 0)
           p2 == MoffatPhase2(n, p1)
           p3 == MoffatPhase3(p2, 1, 0, n - 2, n - 1)
       IN  [A |-> p3, result |-> p3[n - 1]]

MoffatSortedInPlace(n, arr) ==
  IF n <= 0 THEN [A |-> arr, result |-> 0]
  ELSE IF n = 1 THEN [A |-> [arr EXCEPT ![0] = 1], result |-> 1]
  ELSE LET p1 == MoffatPhase1(n, [A |-> arr, leaf |-> 0, root |-> 0], 0)
           p2 == MoffatPhase2(n, p1)
           p3 == MoffatPhase3(p2, 1, 0, n - 2, n - 1)
       IN  [A |-> p3, result |-> p3[0]]

\* compareKeyValue (moffat.c 107-113, limitedjpegdeflate.c 207-213,
\* limitedbzip2.c 22-28): the difference of the keys, as an int
CompareKeyValue(aKey, bKey) == I32Sub(aKey, bKey)

\* the symbols that occur
NonZero(hist) == { i \in DOMAIN hist : hist[i] # 0 }

\* the mapping array after qsort (moffat.c 136-151): the values (symbols) in
\* an order that the comparator accepts; which one, qsort does not promise
SortedMappings(hist) ==
  LET n == Cardinality(NonZero(hist))
  IN  { m \in [0 .. n - 1 -> NonZero(hist)] :
          /\ \A j, k \in 0 .. n - 1 : j # k => m[j] # m[k]
          /\ \A k \in 0 .. n - 2 : CompareKeyValue(hist[m[k]], hist[m[k + 1]]) <= 0 }

\* sorted[i] = mapping[i].key (moffat.c 153-156)
SortedKeys(hist, mapping) == [k \in DOMAIN mapping |-> hist[mapping[k]]]

\* restore original order (moffat.c 161-163): codeLengths[mapping[i].value] = sorted[i]
RestoreOrder(lens, mapping, sorted) ==
  [i \in DOMAIN lens |->
     IF \E k \in DOMAIN mapping : mapping[k] = i
     THEN U8(sorted[CHOOSE k \in DOMAIN mapping : mapping[k] = i])
     ELSE lens[i]]

\* moffat (moffat.c 122-175): [pc, result, codeLengths]
Moffat(hist, lens, mapping) ==
  LET zeroed == [i \in DOMAIN lens |-> IF hist[i] = 0 THEN 0 ELSE lens[i]]
      r == MoffatSortedInPlace(Cardinality(NonZero(hist)), SortedKeys(hist, mapping))
  IN  IF NonZero(hist) = {}
      THEN [pc |-> "returned", result |-> 0, codeLengths |-> zeroed]
      ELSE [pc |-> "returned", result |-> r.result,
            codeLengths |-> RestoreOrder(zeroed, mapping, r.A)]

\* ------------------------------------------------- limitedjpegdeflate.c
\* histNumBits[l] += d
Bump(bits, l, d) == [bits EXCEPT ![l] = bits[l] + d]

\* a variant that looks for codes that are at least three bits shorter
RECURSIVE JpegShorterByThree(_, _)
JpegShorterByThree(bits, j) ==
  IF j > 1 /\ bits[j - 1] = 0 THEN JpegShorterByThree(bits, j - 1) ELSE Max(j - 1, 0)

\* limitedjpegdeflate.c 89-92: look for codes that are at least two bits shorter
RECURSIVE JpegShorter(_, _)
JpegShorter(bits, j) ==
  IF j > 0 /\ bits[j] = 0 THEN JpegShorter(bits, j - 1) ELSE j

\* limitedjpegdeflate.c 94-104: one transformation of the histogram
JpegMoveAddsOne(bits, i, j) ==
  Bump(Bump(Bump(Bump(bits, i, -2), i - 1, 1), j + 1, 1), j, -1)

JpegMove(bits, i, j) ==
  Bump(Bump(Bump(Bump(bits, i, -2), i - 1, 1), j + 1, 2), j, -1)

\* limitedjpegdeflate.c 79-105: while (i > newMaxLength).
\* Cell i is written only by "histNumBits[i] -= 2", and only while it is not
\* zero: an odd count never becomes zero, and the loop never ends.
RECURSIVE JpegLoop(_, _, _)
JpegLoop(newMax, i, bits) ==
  IF i > newMax
  THEN IF bits[i] = 0 THEN JpegLoop(newMax, i - 1, bits)
       ELSE IF bits[i] % 2 # 0 THEN [hung |-> TRUE, i |-> i, bits |-> bits]
       ELSE JpegLoop(newMax, i, JpegMove(bits, i, JpegShorter(bits, i - 2)))
  ELSE [hung |-> FALSE, i |-> i, bits |-> bits]

\* limitedjpegdeflate.c 107-109: longest code length that is still used
RECURSIVE LongestUsed(_, _)
LongestUsed(bits, i) ==
  IF i > 0 /\ bits[i] = 0 THEN LongestUsed(bits, i - 1) ELSE i

\* a variant that shortens every code that is as long as the limit or longer,
\* whatever oldMaxLength says
LimitedJpegInPlaceBelow(newMax, oldMax, bits) ==
  IF newMax <= 1 THEN [hung |-> FALSE, result |-> 0, bits |-> bits]
  ELSE LET r == JpegLoop(newMax - 1, HistSize - 1, bits)
       IN  [hung |-> r.hung, result |-> LongestUsed(r.bits, r.i), bits |-> r.bits]

\* limitedJpegInPlace (limitedjpegdeflate.c 24-116): [hung, result, bits]
LimitedJpegInPlace(newMax, oldMax, bits) ==
  IF newMax <= 1 THEN [hung |-> FALSE, result |-> 0, bits |-> bits]
  ELSE IF newMax > oldMax THEN [hung |-> FALSE, result |-> 0, bits |-> bits]
  ELSE IF newMax = oldMax THEN [hung |-> FALSE, result |-> newMax, bits |-> bits]
  ELSE LET r == JpegLoop(newMax, oldMax, bits)
       IN  [hung |-> r.hung, result |-> LongestUsed(r.bits, r.i), bits |-> r.bits]

\* limitedjpegdeflate.c 150-155: move all oversized code lengths to the longest allowed
RECURSIVE MinizCollapse(_, _, _, _)
MinizCollapse(newMax, oldMax, bits, i) ==
  IF i <= oldMax
  THEN MinizCollapse(newMax, oldMax,
                     [Bump(bits, newMax, bits[i]) EXCEPT ![i] = 0], i + 1)
  ELSE bits

\* limitedjpegdeflate.c 157-161: the Kraft sum, each term shifted in 32 bits
\* (at most 63 terms below 2^32: the sum never wraps)
MinizTotal(newMax, bits, i, oversized) ==
  WTrunc64(WSum([k \in 1 .. i |-> U32Shl(bits[k], newMax - k, oversized)], 1, i))

\* limitedjpegdeflate.c 170-187: find a second code with shorter length and
\* extend it by one bit (nothing is moved when there is none)
RECURSIVE MinizExtendShorter(_, _)
MinizExtendShorter(bits, i) ==
  IF i > 0
  THEN IF bits[i] # 0 THEN Bump(Bump(bits, i, -1), i + 1, 2)
       ELSE MinizExtendShorter(bits, i - 1)
  ELSE bits

\* limitedjpegdeflate.c 163-192: iterate until Kraft sum doesn't exceed 1 anymore
RECURSIVE MinizBalance(_, _, _, _)
MinizBalance(newMax, bits, total, one) ==
  IF WLess(one, total)
  THEN MinizBalance(newMax,
                    MinizExtendShorter(Bump(bits, newMax, -1), newMax - 1),
                    U64Sub(total, WOne), one)
  ELSE bits

\* limitedMinizInPlace (limitedjpegdeflate.c 131-195): [hung, result, bits]
LimitedMinizInPlace(newMax, oldMax, bits, oversized) ==
  IF newMax <= 1 THEN [hung |-> FALSE, result |-> 0, bits |-> bits]
  ELSE IF newMax > oldMax THEN [hung |-> FALSE, result |-> 0, bits |-> bits]
  ELSE IF newMax = oldMax THEN [hung |-> FALSE, result |-> newMax, bits |-> bits]
  ELSE LET collapsed == MinizCollapse(newMax, oldMax, bits, newMax + 1)
           total     == MinizTotal(newMax, collapsed, newMax, oversized)
           one       == U64Shl(WOne, newMax)
       IN  [hung   |-> FALSE,
            result |-> newMax,
            bits   |-> MinizBalance(newMax, collapsed, total, one)]

\* histNumBits[sorted[i]]++ (limitedjpegdeflate.c 292-295)
LengthHistogram(sorted) ==
  [l \in 0 .. HistSize - 1 |-> Cardinality({ k \in DOMAIN sorted : sorted[k] = l })]

\* what the read of a cell beyond histNumBits[63] leads to: the cell belongs
\* to something else on the stack and the loop goes on with whatever it
\* holds, or the read is caught and the run ends there
StrayReads == {"ignored", "caught"}

\* "while (histNumBits[reduce] == 0) reduce--" (limitedjpegdeflate.c 319-320),
\* reduce an unsigned char: the cell at which the scan stops, or HistSize when
\* the scan leaves the array
RECURSIVE ScanDown(_, _)
ScanDown(bits, reduce) ==
  IF reduce >= HistSize THEN HistSize
  ELSE IF bits[reduce] = 0 THEN ScanDown(bits, U8(reduce - 1))
  ELSE reduce

\* code lengths are in descending order, adjust them (limitedjpegdeflate.c
\* 308-321): the symbol i gets the length reduce, and next is where the scan
\* for the following symbol stopped.  left says how many symbols were still
\* to come when the scan left the array (-1: it never did)
RECURSIVE AssignLongest(_, _, _, _, _)
AssignLongest(mapping, i, next, bits, lens) ==
  IF i >= Cardinality(DOMAIN mapping) THEN [lens |-> lens, left |-> -1]
  ELSE IF ScanDown(Bump(bits, next, -1), next) >= HistSize
  THEN [lens |-> [lens EXCEPT ![mapping[i]] = next],
        left |-> Cardinality(DOMAIN mapping) - 1 - i]
  ELSE AssignLongest(mapping, i + 1, ScanDown(Bump(bits, next, -1), next),
                     Bump(bits, next, -1), [lens EXCEPT ![mapping[i]] = next])

\* a variant that clears the cells of the unused symbols only, as moffat() does
InitializeUnusedOnly(hist, lens) ==
  [i \in DOMAIN lens |-> IF hist[i] = 0 THEN 0 ELSE lens[i]]

\* initialize output (limitedjpegdeflate.c 237-240, limitedbzip2.c 55-58)
InitializeOutput(hist, lens) ==
  IF Cardinality(NonZero(hist)) < NumCodes(hist) THEN [i \in DOMAIN lens |-> 0] ELSE lens

\* limitedjpegdeflate.c 298: the algorithm that limitedImpl was given
Algorithm(algorithm, maxLen, oldMax, bits, oversized) ==
  IF algorithm = "limitedJpegInPlace" THEN LimitedJpegInPlace(maxLen, oldMax, bits)
  ELSE LimitedMinizInPlace(maxLen, oldMax, bits, oversized)

\* limitedjpegdeflate.c 308-327, with the adjusted code lengths
LimitedReturn(newMax, adjusted, stray) ==
  IF adjusted.left > 0 \/ (adjusted.left = 0 /\ stray = "caught")
  THEN [pc |-> "undefined", result |-> 0, codeLengths |-> adjusted.lens]
  ELSE [pc |-> "returned", result |-> newMax, codeLengths |-> adjusted.lens]

\* limitedjpegdeflate.c 298-327, with what the algorithm made of the histogram
LimitedAdjust(mapping, cleared, reduced, stray) ==
  IF reduced.hung THEN [pc |-> "hung", result |-> 0, codeLengths |-> cleared]
  ELSE IF reduced.result = 0 THEN [pc |-> "returned", result |-> 0, codeLengths |-> cleared]
  ELSE LimitedReturn(reduced.result,
                     AssignLongest(mapping, 0, reduced.result, reduced.bits, cleared), stray)

\* limitedjpegdeflate.c 268-327, with r what moffatSortedInPlace returned
LimitedReduce(algorithm, maxLen, mapping, cleared, r, oversized, stray) ==
  IF r.result <= maxLen
  THEN [pc |-> "returned", result |-> r.result,
        codeLengths |-> RestoreOrder(cleared, mapping, r.A)]
  ELSE IF r.result > HistSize - 1
  THEN [pc |-> "returned", result |-> 0, codeLengths |-> cleared]
  ELSE LimitedAdjust(mapping, cleared,
                     Algorithm(algorithm, maxLen, r.result, LengthHistogram(r.A), oversized),
                     stray)

\* limitedImpl (limitedjpegdeflate.c 220-328) with algorithm one of
\* "limitedJpegInPlace", "limitedMinizInPlace": [pc, result, codeLengths]
LimitedImpl(algorithm, maxLen, hist, lens, mapping, oversized, stray) ==
  IF maxLen = 0 \/ maxLen > HistSize - 1 \/ NumCodes(hist) = 0
  THEN [pc |-> "returned", result |-> 0, codeLengths |-> lens]
  ELSE IF Cardinality(NonZero(hist)) = 0
  THEN [pc |-> "returned", result |-> 0, codeLengths |-> lens]
  ELSE LimitedReduce(algorithm, maxLen, mapping, InitializeOutput(hist, lens),
                     MoffatSortedInPlace(Cardinality(NonZero(hist)), SortedKeys(hist, mapping)),
                     oversized, stray)

\* ------------------------------------------------------------ limitedbzip2.c
\* more or less divide each weight by two while avoiding zero
\* (limitedbzip2.c 89-113, EXTRA_SHIFT 0 and DIVIDE_BY 2)
Rescale(keys) == [k \in DOMAIN keys |-> U32Add(1, U32Half(keys[k]))]

\* a variant that goes on when the limit is just met
TooLongAtLimit(length, maxLen) == length >= maxLen

\* "while (result > maxLength)" (limitedbzip2.c 87)
TooLong(length, maxLen) == length > maxLen

\* run Moffat algorithm until a proper maximum code length is found
\* (limitedbzip2.c 84-119); r is what moffatSortedInPlace made of the keys.
\* Rescaling weights that it leaves as they are repeats the same round for ever.
RECURSIVE Bzip2Loop(_, _, _)
Bzip2Loop(maxLen, keys, r) ==
  IF ~TooLong(r.result, maxLen) THEN [hung |-> FALSE, result |-> r.result, sorted |-> r.A]
  ELSE IF Rescale(keys) = keys THEN [hung |-> TRUE, result |-> 0, sorted |-> r.A]
  ELSE Bzip2Loop(maxLen, Rescale(keys),
                 MoffatSortedInPlace(Cardinality(DOMAIN keys), Rescale(keys)))

\* restore original order (limitedbzip2.c 121-129)
Bzip2Return(cleared, mapping, r) ==
  IF r.hung THEN [pc |-> "hung", result |-> 0, codeLengths |-> cleared]
  ELSE [pc |-> "returned", result |-> r.result,
        codeLengths |-> RestoreOrder(cleared, mapping, r.sorted)]

\* limitedBzip2 (limitedbzip2.c 38-131): [pc, result, codeLengths]
LimitedBzip2(maxLen, hist, lens, mapping) ==
  IF Cardinality(NonZero(hist)) = 0
  THEN [pc |-> "returned", result |-> 0, codeLengths |-> lens]
  ELSE Bzip2Return(InitializeOutput(hist, lens), mapping,
                   Bzip2Loop(maxLen, SortedKeys(hist, mapping),
                             MoffatSortedInPlace(Cardinality(NonZero(hist)),
                                                 SortedKeys(hist, mapping))))

\* ------------------------------------ limitedkraft.c, limitedkraftheap.c
\* 0.5849625f, 0.5f, 28 / 64.0f and 1 / 64.0f
Log2Of1p5 == [neg |-> FALSE, man |-> 9814042, exp |-> -24]
FHalf == [neg |-> FALSE, man |-> 8388608, exp |-> -24]
InitialThreshold == [neg |-> FALSE, man |-> 14680064, exp |-> -25]
StepThreshold == [neg |-> FALSE, man |-> 8388608, exp |-> -29]

\* fastlog2 (limitedkraft.c 14-85, limitedkraftheap.c 133-204), version C:
\* the exponent field minus its bias, plus 0.5849625f times the mantissa
\* read as a number between 1 and 2
FieldExponent(x) == IF x.man = 0 THEN -127 ELSE x.exp + (ManBits - 1)

FieldMantissa(x) ==
  [neg |-> FALSE,
   man |-> IF x.man = 0 THEN 2 ^ (ManBits - 1) ELSE x.man,
   exp |-> 0 - (ManBits - 1)]

FastLog2(x) == FAdd(FInt(FieldExponent(x)), FMul(Log2Of1p5, FieldMantissa(x)))

\* sumHistogram (limitedkraft.c 104-107), an unsigned long long
SumHistogram(hist, n) ==
  WTrunc64(WSum([i \in 0 .. n - 1 |-> U32Value(hist[i])], 0, n - 1))

\* invSumHistogram = 1.0f / sumHistogram (limitedkraft.c 110)
InvSumHistogram(hist) == FReciprocal(FRound(FALSE, SumHistogram(hist, NumCodes(hist)), 0))

\* entropy = -fastlog2(histogram[i] * invSumHistogram) (limitedkraft.c 131)
Entropy(count, inv) == FNeg(FastLog2(FMul(FRound(FALSE, U32Value(count), 0), inv)))

\* rounded (limitedkraft.c 133-140): round to next integer, at least one bit
\* and never more than the length limit
ClampLength(r, maxLen) ==
  IF r = 0 THEN (IF 1 > maxLen THEN maxLen ELSE 1)
  ELSE IF r > maxLen THEN maxLen
  ELSE r

Rounded(entropy, maxLen) == ClampLength(FTruncate(FAdd(entropy, FHalf)), maxLen)

\* one = 1 << maxLength (limitedkraft.c 117, limitedkraftheap.c 235): the
\* shift is done in int and the int is then widened with its sign
RECURSIVE IntShlOne(_, _)
IntShlOne(maxLen, oversized) ==
  IF maxLen < IntBits - 1 THEN WShl(WOne, maxLen)
  ELSE IF maxLen = IntBits - 1 THEN WNot64(WNat(2147483647))
  ELSE IF oversized = "masked" THEN IntShlOne(maxLen % IntBits, oversized)
  ELSE WZero

\* The loops of both kernels work on st, a record of codeLengths (lens),
\* spent and, in limitedKraftHeap, the heap.

\* assign code length, accumulate Kraft sum (limitedkraft.c 143-146)
KraftAssign(one, i, st, rounded) ==
  [st EXCEPT !.lens = [@ EXCEPT ![i] = rounded],
             !.spent = U64Add(@, WShr(one, rounded))]

\* limitedkraft.c 122-147: one symbol
KraftRoundOne(maxLen, hist, entropy, one, i, st) ==
  IF hist[i] = 0 THEN [st EXCEPT !.lens = [@ EXCEPT ![i] = 0]]
  ELSE KraftAssign(one, i, st, Rounded(entropy[i], maxLen))

\* start with rounded optimal code length (limitedkraft.c 121-147)
RECURSIVE KraftRound(_, _, _, _, _, _)
KraftRound(maxLen, hist, entropy, one, i, st) ==
  IF i >= NumCodes(hist) THEN st
  ELSE KraftRound(maxLen, hist, entropy, one, i + 1,
                  KraftRoundOne(maxLen, hist, entropy, one, i, st))

\* all valid codes except those already at maximum length (limitedkraft.c 167)
CanExtend(maxLen, lens, i) == ~(lens[i] = 0 \/ lens[i] >= maxLen)

\* extend code by one more bit, reduce Kraft sum accordingly
\* (limitedkraft.c 175-178, limitedkraftheap.c 296-299)
Lengthened(one, i, st) ==
  [st EXCEPT !.lens = [@ EXCEPT ![i] = st.lens[i] + 1],
             !.spent = U64Sub(@, WShr(one, st.lens[i] + 1))]

\* limitedkraft.c 165-182: one symbol at one threshold
KraftExtendOne(maxLen, entropy, one, threshold, i, st) ==
  IF CanExtend(maxLen, st.lens, i) /\ FLess(threshold, FSub(entropy[i], FInt(st.lens[i])))
  THEN Lengthened(one, i, st)
  ELSE st

\* one pass over the symbols at one threshold (limitedkraft.c 164-183).  A
\* pass starts with spent > one and only an extension changes spent, so
\* spent <= one tells that the pass has left through its break.
RECURSIVE KraftExtendPass(_, _, _, _, _, _)
KraftExtendPass(maxLen, entropy, one, threshold, i, st) ==
  IF i >= NumCodes(st.lens) \/ WLeq(st.spent, one) THEN st
  ELSE KraftExtendPass(maxLen, entropy, one, threshold, i + 1,
                       KraftExtendOne(maxLen, entropy, one, threshold, i, st))

\* limitedkraft.c 163: the loop goes on while spent > one
KraftExtending(one, st) == ~st.hung /\ WLess(one, st.spent)

\* one round of the loop over the thresholds (limitedkraft.c 163-183), if
\* the loop has not ended.  With no code left to extend, no pass changes
\* anything and the loop never ends.
KraftExtendRound(maxLen, entropy, one, st) ==
  IF ~KraftExtending(one, st) THEN st
  ELSE IF \A i \in DOMAIN st.lens : ~CanExtend(maxLen, st.lens, i)
  THEN [st EXCEPT !.hung = TRUE]
  ELSE [KraftExtendPass(maxLen, entropy, one, st.threshold, 0, st)
        EXCEPT !.threshold = FSub(@, StepThreshold)]

\* the next k rounds of the loop, or those that are left of it
RECURSIVE KraftExtendRounds(_, _, _, _, _)
KraftExtendRounds(maxLen, entropy, one, k, st) ==
  IF ~KraftExtending(one, st) THEN st
  ELSE IF k = 1 THEN KraftExtendRound(maxLen, entropy, one, st)
  ELSE KraftExtendRounds(maxLen, entropy, one, k \div 2,
                         KraftExtendRounds(maxLen, entropy, one, k - (k \div 2), st))

\* iterate until Kraft inequality is satisfied (limitedkraft.c 161-183):
\* the first k rounds, then the next 2k, and so on
RECURSIVE KraftExtendFrom(_, _, _, _, _)
KraftExtendFrom(maxLen, entropy, one, k, st) ==
  IF ~KraftExtending(one, st) THEN st
  ELSE KraftExtendFrom(maxLen, entropy, one, 2 * k,
                       KraftExtendRounds(maxLen, entropy, one, k, st))

KraftExtend(maxLen, entropy, one, st) == KraftExtendFrom(maxLen, entropy, one, 1, st)

\* adjust this code (limitedkraft.c 199-201, limitedkraftheap.c 321-323);
\* codeLengths[i] is an unsigned char
Shortened(one, i, st) ==
  [st EXCEPT !.lens = [@ EXCEPT ![i] = U8(st.lens[i] - 1)],
             !.spent = U64Add(@, WShr(one, st.lens[i]))]

\* limitedkraft.c 191-206: one symbol
KraftShortenOne(one, i, st) ==
  IF st.lens[i] <= 1 THEN st
  ELSE IF WLeq(WShr(one, st.lens[i]), U64Sub(one, st.spent)) THEN Shortened(one, i, st)
  ELSE st

\* a few codes might become shorter (limitedkraft.c 189-207).  The loop starts
\* with spent < one and only a shorter code changes spent, so one = spent
\* tells that the loop has left through its break.
RECURSIVE KraftShorten(_, _, _)
KraftShorten(one, i, st) ==
  IF i >= NumCodes(st.lens) \/ one = st.spent THEN st
  ELSE KraftShorten(one, i + 1, KraftShortenOne(one, i, st))

\* find longest code (limitedkraft.c 212-220, limitedkraftheap.c 331-339)
RECURSIVE LongestCode(_, _, _, _)
LongestCode(maxLen, lens, i, longest) ==
  IF i >= NumCodes(lens) THEN longest
  ELSE IF longest < lens[i]
  THEN IF lens[i] = maxLen THEN lens[i] ELSE LongestCode(maxLen, lens, i + 1, lens[i])
  ELSE LongestCode(maxLen, lens, i + 1, longest)

\* a variant that reports the limit, not the longest code
KraftReturnsLimit(maxLen, lens) ==
  [pc |-> "returned", result |-> maxLen, codeLengths |-> lens]

\* limitedkraft.c 212-223, limitedkraftheap.c 331-341
KraftReturn(maxLen, lens) ==
  [pc |-> "returned", result |-> LongestCode(maxLen, lens, 0, 0), codeLengths |-> lens]

\* limitedkraft.c 185-223, with st as the extension left it
KraftFinish(maxLen, one, st) ==
  IF st.hung THEN [pc |-> "hung", result |-> 0, codeLengths |-> st.lens]
  ELSE KraftReturn(maxLen, IF WLess(st.spent, one) THEN KraftShorten(one, 0, st).lens
                           ELSE st.lens)

\* entropy of every symbol that occurs; limitedKraft computes it anew at each use
EntropiesWith(hist, inv) ==
  [i \in DOMAIN hist |-> IF hist[i] = 0 THEN FZero ELSE Entropy(hist[i], inv)]

Entropies(hist) == Bind(InvSumHistogram(hist), LAMBDA inv : EntropiesWith(hist, inv))

\* limitedkraft.c 119-183: the lengths and spent when the loop over the
\* thresholds has ended
KraftExtended(maxLen, hist, lens, one, entropy) ==
  KraftExtend(maxLen, entropy, one,
              KraftRound(maxLen, hist, entropy, one, 0,
                         [hung |-> FALSE, lens |-> lens, spent |-> WZero,
                          threshold |-> InitialThreshold]))

\* limitedkraft.c 119-223, with one and the entropies
KraftRun(maxLen, hist, lens, one, entropy) ==
  KraftFinish(maxLen, one, KraftExtended(maxLen, hist, lens, one, entropy))

\* limitedKraft (limitedkraft.c 99-223): [pc, result, codeLengths]
LimitedKraft(maxLen, hist, lens, oversized) ==
  Bind(Entropies(hist),
       LAMBDA entropy : KraftRun(maxLen, hist, lens, IntShlOne(maxLen, oversized), entropy))

\* ------------------------------------------- limitedkraftheap.c: the heap
\* a heap is [keys, values, size]; keys and values have numCodes cells
EmptyHeap(numCodes) ==
  [keys |-> [k \in 0 .. numCodes - 1 |-> FZero],
   values |-> [k \in 0 .. numCodes - 1 |-> 0],
   size |-> 0]

\* heap_isLess (limitedkraftheap.c 31-36)
HeapIsLess(heap, posA, posB) == FLess(heap.keys[posA], heap.keys[posB])

\* heap_swap (limitedkraftheap.c 39-48)
HeapSwap(heap, posA, posB) ==
  [heap EXCEPT !.keys = [@ EXCEPT ![posA] = heap.keys[posB], ![posB] = heap.keys[posA]],
               !.values = [@ EXCEPT ![posA] = heap.values[posB], ![posB] = heap.values[posA]]]

\* heap_bubbleUp (limitedkraftheap.c 51-61), from position current
RECURSIVE HeapBubbleUp(_, _)
HeapBubbleUp(heap, current) ==
  IF current > 0 /\ HeapIsLess(heap, (current - 1) \div 2, current)
  THEN HeapBubbleUp(HeapSwap(heap, current, (current - 1) \div 2), (current - 1) \div 2)
  ELSE heap

\* limitedkraftheap.c 73-80: child if it is there and bigger than the item at pos
BiggerOf(heap, pos, child) ==
  IF child < heap.size /\ HeapIsLess(heap, pos, child) THEN child ELSE pos

\* a variant that never looks at the right child
BiggestOrLeft(heap, current) == BiggerOf(heap, current, 2 * current + 1)

\* limitedkraftheap.c 69-80: compare to left child, then to right child
Biggest(heap, current) ==
  BiggerOf(heap, BiggerOf(heap, current, 2 * current + 1), 2 * current + 2)

\* limitedkraftheap.c 82-90: one round of the loop, biggest already found
RECURSIVE HeapSinkFrom(_, _, _)
HeapSinkFrom(heap, current, biggest) ==
  IF biggest = current THEN heap
  ELSE HeapSinkFrom(HeapSwap(heap, biggest, current), biggest,
                    Biggest(HeapSwap(heap, biggest, current), biggest))

\* heap_sinkDown (limitedkraftheap.c 64-92)
HeapSinkDown(heap, current) == HeapSinkFrom(heap, current, Biggest(heap, current))

\* heap_removeTop (limitedkraftheap.c 95-109), of a heap that is not empty
HeapRemoveTop(heap) ==
  IF heap.size - 1 > 0
  THEN HeapSinkDown([heap EXCEPT !.keys = [@ EXCEPT ![0] = heap.keys[heap.size - 1]],
                                 !.values = [@ EXCEPT ![0] = heap.values[heap.size - 1]],
                                 !.size = heap.size - 1], 0)
  ELSE [heap EXCEPT !.size = heap.size - 1]

\* heap_insert (limitedkraftheap.c 112-122)
HeapInsert(heap, key, value) ==
  [HeapBubbleUp([heap EXCEPT !.keys = [@ EXCEPT ![heap.size] = key],
                             !.values = [@ EXCEPT ![heap.size] = value]], heap.size)
   EXCEPT !.size = heap.size + 1]

\* ------------------------------------------------------- limitedkraftheap.c
\* limitedkraftheap.c 266-275: assign code length, accumulate Kraft sum and
\* remember the gain of a code that can still be extended
HeapAssign(maxLen, entropy, one, i, st, rounded) ==
  [KraftAssign(one, i, st, rounded)
   EXCEPT !.heap = IF rounded < maxLen
                   THEN HeapInsert(st.heap, FSub(entropy[i], FInt(rounded)), i)
                   ELSE st.heap]

\* limitedkraftheap.c 246-276: one symbol
HeapRoundOne(maxLen, hist, entropy, one, i, st) ==
  IF hist[i] = 0 THEN [st EXCEPT !.lens = [@ EXCEPT ![i] = 0]]
  ELSE HeapAssign(maxLen, entropy, one, i, st, Rounded(entropy[i], maxLen))

\* start with rounded optimal code length (limitedkraftheap.c 245-276)
RECURSIVE HeapRound(_, _, _, _, _, _)
HeapRound(maxLen, hist, entropy, one, i, st) ==
  IF i >= NumCodes(hist) THEN st
  ELSE HeapRound(maxLen, hist, entropy, one, i + 1,
                 HeapRoundOne(maxLen, hist, entropy, one, i, st))

\* a variant that never puts the extended code back
HeapKeepsPopped(one, gain, i, popped, longer) == [longer EXCEPT !.heap = popped]

\* limitedkraftheap.c 300-306: exit early if done, else re-insert into the heap
HeapReinsert(one, gain, i, popped, longer) ==
  IF WLeq(longer.spent, one) THEN [longer EXCEPT !.heap = popped]
  ELSE [longer EXCEPT !.heap = HeapInsert(popped, FSub(gain, FInt(1)), i)]

\* limitedkraftheap.c 287-306: one round, the top of the heap (gain, i) taken
\* off and popped what is left of the heap
HeapExtendOne(maxLen, one, gain, i, popped, st) ==
  IF ~CanExtend(maxLen, st.lens, i) THEN [st EXCEPT !.heap = popped]
  ELSE HeapReinsert(one, gain, i, popped, Lengthened(one, i, st))

\* limitedkraftheap.c 285: the loop goes on while spent > one
HeapExtending(one, st) == ~st.undefined /\ WLess(one, st.spent)

\* one round of the loop (limitedkraftheap.c 285-307), if the loop has not
\* ended.  Taking the top of an empty heap reads cells that were never
\* written and then cells far outside the arrays.
HeapExtendRound(maxLen, one, st) ==
  IF ~HeapExtending(one, st) THEN st
  ELSE IF st.heap.size = 0 THEN [st EXCEPT !.undefined = TRUE]
  ELSE HeapExtendOne(maxLen, one, st.heap.keys[0], st.heap.values[0],
                     HeapRemoveTop(st.heap), st)

\* the next k rounds of the loop, or those that are left of it
RECURSIVE HeapExtendRounds(_, _, _, _)
HeapExtendRounds(maxLen, one, k, st) ==
  IF ~HeapExtending(one, st) THEN st
  ELSE IF k = 1 THEN HeapExtendRound(maxLen, one, st)
  ELSE HeapExtendRounds(maxLen, one, k \div 2,
                        HeapExtendRounds(maxLen, one, k - (k \div 2), st))

\* iterate until Kraft inequality is satisfied (limitedkraftheap.c 284-307):
\* the first k rounds, then the next 2k, and so on
RECURSIVE HeapExtendFrom(_, _, _, _)
HeapExtendFrom(maxLen, one, k, st) ==
  IF ~HeapExtending(one, st) THEN st
  ELSE HeapExtendFrom(maxLen, one, 2 * k, HeapExtendRounds(maxLen, one, k, st))

HeapExtend(maxLen, one, st) == HeapExtendFrom(maxLen, one, 1, st)

\* limitedkraftheap.c 317-324: check if removing one bit still preserves
\* Kraft inequality; nothing here asks how long the code is
HeapShortenOne(one, i, popped, st) ==
  IF WLeq(WShr(one, st.lens[i]), U64Sub(one, st.spent))
  THEN [Shortened(one, i, st) EXCEPT !.heap = popped]
  ELSE [st EXCEPT !.heap = popped]

\* a few codes might become shorter (limitedkraftheap.c 309-325)
RECURSIVE HeapShorten(_, _)
HeapShorten(one, st) ==
  IF WLess(st.spent, one) /\ st.heap.size > 0
  THEN HeapShorten(one, HeapShortenOne(one, st.heap.values[0], HeapRemoveTop(st.heap), st))
  ELSE st

\* limitedkraftheap.c 309-341, with st as the extension left it
HeapFinish(maxLen, one, st) ==
  IF st.undefined THEN [pc |-> "undefined", result |-> 0, codeLengths |-> st.lens]
  ELSE KraftReturn(maxLen, HeapShorten(one, st).lens)

\* limitedkraftheap.c 237-276: the lengths, spent and the heap when every
\* symbol has its rounded length
HeapRounded(maxLen, hist, lens, one, entropy) ==
  HeapRound(maxLen, hist, entropy, one, 0,
            [undefined |-> FALSE, lens |-> lens, spent |-> WZero,
             heap |-> EmptyHeap(NumCodes(hist))])

\* limitedkraftheap.c 237-307: the same when the loop that extends codes has ended
HeapExtended(maxLen, hist, lens, one, entropy) ==
  HeapExtend(maxLen, one, HeapRounded(maxLen, hist, lens, one, entropy))

\* limitedkraftheap.c 237-341, with one and the entropies
HeapRun(maxLen, hist, lens, one, entropy) ==
  HeapFinish(maxLen, one, HeapExtended(maxLen, hist, lens, one, entropy))

\* limitedKraftHeap (limitedkraftheap.c 218-342): [pc, result, codeLengths]
LimitedKraftHeap(maxLen, hist, lens, oversized) ==
  Bind(Entropies(hist),
       LAMBDA entropy : HeapRun(maxLen, hist, lens, IntShlOne(maxLen, oversized), entropy))

\* no heap is in use
NoHeap == theHeap = EmptyHeap(0) /\ paired = <<>>

\* ----------------------------------------------- SpecMoffat: the in-place coder
\* the arrays of n weights in ascending order
SortedWeights(n) == { a \in Arrays(n, 1 .. MaxWeight) : IsAscending(a) }

InitMoffat ==
  /\ pc = "idle"
  /\ call = "none"
  /\ result = 0
  /\ \E n \in 0 .. MaxSorted : A \in SortedWeights(n)
  /\ before = A
  /\ newMaxLength = 0
  /\ oldMaxLength = 0
  /\ histNumBits = <<>>
  /\ maxLength = 0
  /\ histogram = <<>>
  /\ codeLengths = <<>>
  /\ NoHeap

CallMoffatSortedInPlace ==
  /\ pc = "idle"
  /\ LET r == MoffatSortedInPlace(Cardinality(DOMAIN A), A)
     IN  /\ A' = r.A
         /\ result' = r.result
  /\ pc' = "returned"
  /\ call' = "moffatSortedInPlace"
  /\ UNCHANGED <<reducerVars, kernelVars, before, heapVars>>

NextMoffat == CallMoffatSortedInPlace

SpecMoffat == InitMoffat /\ [][NextMoffat]_vars

\* ------------------------------------- SpecReduce: the in-place reducers
\* a histogram of HistSize cells that counts c[l] codes of l bits, l in DOMAIN c
Histogram(c) == [l \in 0 .. HistSize - 1 |-> IF l \in DOMAIN c THEN c[l] ELSE 0]

\* the codes of a prefix code: Kraft sum of the lengths 1 .. top at most 1,
\* for counts c[1 .. top] small enough for plain integers
KraftHolds(c, top) == SumOver([l \in DOMAIN c |-> c[l] * (2 ^ (top - l))], DOMAIN c) <= 2 ^ top
KraftExact(bits, top) == KraftUnits(bits, top, 1) = WShl(WOne, top)

\* small histograms: lengths 1 .. oldMax, at most MaxPerLength codes each,
\* histNumBits[0] = 0 and Kraft sum at most 1
SmallCodes(oldMax) == { c \in [1 .. oldMax -> 0 .. MaxPerLength] : KraftHolds(c, oldMax) }

\* the one-sided code with one code of each length 1 .. d-1 and two of d bits
\* (what Moffat builds for Fibonacci-like frequencies)
OneSided(d) == [l \in 1 .. d |-> IF l = d THEN 2 ELSE 1]

\* long histograms: a one-sided code longer than an unsigned int has bits,
\* to be shortened by one bit
DeepLengths == (IntBits + 2) .. (IntBits + 1 + MaxDeepLevels)

\* a call that gives the codes c, none longer than oldMax, at most newMax bits
InitCall(newMax, oldMax, c) ==
  /\ newMaxLength = newMax
  /\ oldMaxLength = oldMax
  /\ histNumBits = Histogram(c)

InitReduce ==
  /\ pc = "idle"
  /\ call = "none"
  /\ result = 0
  /\ A = <<>>
  /\ maxLength = 0
  /\ histogram = <<>>
  /\ codeLengths = <<>>
  /\ \/ \E o \in 1 .. MaxOldLength : \E n \in 1 .. o : \E c \in SmallCodes(o) : InitCall(n, o, c)
     \/ \E d \in DeepLengths : InitCall(d - 1, d, OneSided(d))
  /\ before = histNumBits
  /\ NoHeap

CallLimitedJpegInPlace ==
  /\ pc = "idle"
  /\ LET r == LimitedJpegInPlace(newMaxLength, oldMaxLength, histNumBits)
     IN  /\ pc' = IF r.hung THEN "hung" ELSE "returned"
         /\ result' = r.result
         /\ histNumBits' = r.bits
  /\ call' = "limitedJpegInPlace"
  /\ UNCHANGED <<A, newMaxLength, oldMaxLength, kernelVars, before, heapVars>>

CallLimitedMinizInPlace ==
  /\ pc = "idle"
  /\ \E oversized \in OversizedShifts :
       LET r == LimitedMinizInPlace(newMaxLength, oldMaxLength, histNumBits, oversized)
       IN  /\ pc' = IF r.hung THEN "hung" ELSE "returned"
           /\ result' = r.result
           /\ histNumBits' = r.bits
  /\ call' = "limitedMinizInPlace"
  /\ UNCHANGED <<A, newMaxLength, oldMaxLength, kernelVars, before, heapVars>>

NextReduce == CallLimitedJpegInPlace \/ CallLimitedMinizInPlace

SpecReduce == InitReduce /\ [][NextReduce]_vars

\* ----------------------------------------------------- Spec: the kernels
\* the length limits: the small ones, those at which 1 << maxLength leaves
\* the range of int, and the first one above the 63 that limitedImpl accepts
Limits == (0 .. MaxLimit) \cup {IntBits - 1, IntBits, HistSize}

\* the histograms of numCodes counts
Histograms(numCodes) == Arrays(numCodes, 0 .. MaxCount)

\* two larger histograms of numCodes counts: every symbol once, and each
\* symbol twice as often as the one before it
LargeHistograms(numCodes) ==
  {[i \in 0 .. numCodes - 1 |-> 1], [i \in 0 .. numCodes - 1 |-> 2 ^ i]}

Init ==
  /\ pc = "idle"
  /\ call = "none"
  /\ result = 0
  /\ A = <<>>
  /\ newMaxLength = 0
  /\ oldMaxLength = 0
  /\ histNumBits = <<>>
  /\ maxLength \in Limits
  /\ \/ \E numCodes \in 0 .. MaxCodes : histogram \in Histograms(numCodes)
     \/ \E numCodes \in MaxCodes + 1 .. MaxLargeCodes : histogram \in LargeHistograms(numCodes)
  /\ codeLengths = [i \in DOMAIN histogram |-> StaleLength]
  /\ before = codeLengths
  /\ NoHeap

\* the call returns, hangs or ends in undefined behaviour, as r says
Finish(name, r) ==
  /\ pc = "idle"
  /\ pc' = r.pc
  /\ call' = name
  /\ result' = r.result
  /\ codeLengths' = r.codeLengths
  /\ UNCHANGED <<A, reducerVars, maxLength, histogram, before, heapVars>>

CallMoffat ==
  \E mapping \in SortedMappings(histogram) :
    Finish("moffat", Moffat(histogram, codeLengths, mapping))

CallLimitedJpeg ==
  \E mapping \in SortedMappings(histogram), stray \in StrayReads :
    Finish("limitedJpeg",
           LimitedImpl("limitedJpegInPlace", maxLength, histogram, codeLengths,
                       mapping, "masked", stray))

CallLimitedMiniz ==
  \E mapping \in SortedMappings(histogram), oversized \in OversizedShifts,
     stray \in StrayReads :
    Finish("limitedMiniz",
           LimitedImpl("limitedMinizInPlace", maxLength, histogram, codeLengths,
                       mapping, oversized, stray))

CallLimitedBzip2 ==
  \E mapping \in SortedMappings(histogram) :
    Finish("limitedBzip2", LimitedBzip2(maxLength, histogram, codeLengths, mapping))

CallLimitedKraft ==
  \E oversized \in OversizedShifts :
    Finish("limitedKraft", LimitedKraft(maxLength, histogram, codeLengths, oversized))

CallLimitedKraftHeap ==
  \E oversized \in OversizedShifts :
    Finish("limitedKraftHeap", LimitedKraftHeap(maxLength, histogram, codeLengths, oversized))

Next ==
  \/ CallMoffat
  \/ CallLimitedJpeg
  \/ CallLimitedMiniz
  \/ CallLimitedBzip2
  \/ CallLimitedKraft
  \/ CallLimitedKraftHeap

Spec == Init /\ [][Next]_vars

\* ------------------------------------------------------ claims on moffat.c
NumSorted == Cardinality(DOMAIN A)

\* sum_k w[k] * len[k]
WeightedTotal(w, len) == SumOver([k \in DOMAIN w |-> w[k] * len[k]], DOMAIN w)

\* reference Huffman construction on an ascending sequence: the two lightest
\* nodes are merged until one is left; the cost is the sum of the merged weights
RECURSIVE InsertSorted(_, _)
InsertSorted(x, s) ==
  IF s = <<>> THEN <<x>>
  ELSE IF x <= Head(s) THEN <<x>> \o s
  ELSE <<Head(s)>> \o InsertSorted(x, Tail(s))

RECURSIVE HuffmanCost(_)
HuffmanCost(s) ==
  IF Len(s) <= 1 THEN 0
  ELSE LET m == s[1] + s[2]
       IN  m + HuffmanCost(InsertSorted(m, Tail(Tail(s))))

AsSeq(a) == [k \in 1 .. Cardinality(DOMAIN a) |-> a[k - 1]]

\* the length vectors of the prefix codes on the symbols of w (Kraft's inequality)
PrefixCodeLengths(w) ==
  LET n == Cardinality(DOMAIN w)
  IN  { len \in [DOMAIN w -> 1 .. n - 1] :
          SumOver([k \in DOMAIN w |-> 2 ^ (n - 1 - len[k])], DOMAIN w) <= 2 ^ (n - 1) }

\* C6: after moffatSortedInPlace on M >= 2 ascending positive weights the
\* weighted total of the lengths left in A is the cost of the reference
\* Huffman construction, and no prefix code for those weights costs less.
C6_MoffatOptimal ==
  (pc = "returned" /\ NumSorted >= 2) =>
    /\ WeightedTotal(before, A) = HuffmanCost(AsSeq(before))
    /\ A \in PrefixCodeLengths(before)
    /\ \A len \in PrefixCodeLengths(before) :
         WeightedTotal(before, A) <= WeightedTotal(before, len)

\* the example of spec S3: weights 1,1,2,5 give a longest code of 3 bits
C6_Witness ==
  /\ pc = "returned"
  /\ AsSeq(before) = <<1, 1, 2, 5>>
  /\ result = 3
  /\ WeightedTotal(before, A) = 15

\* C7: after moffatSortedInPlace on M >= 1 weights the buffer is
\* non-increasing and the value returned is A[0], the longest length.
C7_MoffatDescending ==
  (pc = "returned" /\ NumSorted >= 1) =>
    /\ \A k \in DOMAIN A : (k + 1) \in DOMAIN A => A[k] >= A[k + 1]
    /\ result = A[0]
    /\ \A k \in DOMAIN A : A[k] <= result

C7_Witness ==
  /\ pc = "returned"
  /\ NumSorted = 4
  /\ A[0] = 3 /\ A[3] = 1
  /\ result = 3


\* ------------------------------- SpecRepeat: a reducer is called again
\* the limits of the second call: the length the first call returned, one
\* more, and the longest length there is
RepeatLimits(m) == {m, m + 1, HistSize - 1} \ (0 .. m - 1)

\* the reducer that returned m = result > 0 is called again on its output,
\* with oldMaxLength = m and newMaxLength >= m
CallAgain ==
  /\ pc = "returned"
  /\ call \in {"limitedJpegInPlace", "limitedMinizInPlace"}
  /\ result > 0
  /\ \E newMax \in RepeatLimits(result), oversized \in OversizedShifts :
       LET r == Algorithm(call, newMax, result, histNumBits, oversized)
       IN  /\ pc' = IF r.hung THEN "hung" ELSE "repeated"
           /\ result' = r.result
           /\ histNumBits' = r.bits
           /\ newMaxLength' = newMax
  /\ oldMaxLength' = result
  /\ before' = histNumBits
  /\ UNCHANGED <<call, A, kernelVars, heapVars>>

NextRepeat == CallLimitedJpegInPlace \/ CallLimitedMinizInPlace \/ CallAgain

SpecRepeat == InitReduce /\ [][NextRepeat]_vars

\* ------------------------------------------------ SpecHeap: the heap alone
\* the keys that are inserted: the floats 0, 1, .. MaxKey
HeapKeys == { FInt(k) : k \in 0 .. MaxKey }

\* the values that are in the heap
Stored == { theHeap.values[c] : c \in 0 .. theHeap.size - 1 }

\* an empty heap with room for MaxSlots items (limitedkraftheap.c 239-242)
InitHeap ==
  /\ pc = "idle"
  /\ call = "none"
  /\ result = 0
  /\ A = <<>>
  /\ newMaxLength = 0
  /\ oldMaxLength = 0
  /\ histNumBits = <<>>
  /\ maxLength = 0
  /\ histogram = <<>>
  /\ codeLengths = <<>>
  /\ before = <<>>
  /\ theHeap = EmptyHeap(MaxSlots)
  /\ paired = [v \in 0 .. MaxSlots - 1 |-> FZero]

\* heap_insert of a value that is not in the heap, as limitedKraftHeap
\* inserts the symbols, while a slot is free
CallHeapInsert ==
  /\ theHeap.size < MaxSlots
  /\ \E key \in HeapKeys, value \in (0 .. MaxSlots - 1) \ Stored :
       /\ theHeap' = HeapInsert(theHeap, key, value)
       /\ paired' = [paired EXCEPT ![value] = key]
  /\ call' = "heap_insert"
  /\ UNCHANGED <<pc, result, A, reducerVars, kernelVars, before>>

\* heap_removeTop of a heap that is not empty
CallHeapRemoveTop ==
  /\ theHeap.size > 0
  /\ theHeap' = HeapRemoveTop(theHeap)
  /\ call' = "heap_removeTop"
  /\ UNCHANGED <<pc, result, A, reducerVars, kernelVars, before, paired>>

NextHeap == CallHeapInsert \/ CallHeapRemoveTop

SpecHeap == InitHeap /\ [][NextHeap]_vars

\* ------------------------------- SpecWide: counts that need all 32 bits
\* 1, 2^31 - 1, 2^31, 3 * 2^30 and 2^32 - 1 as unsigned int cells
WideWeights == {1, 2147483647, 0 - 2147483647 - 1, 0 - 1073741824, 0 - 1}

\* moffatSortedInPlace is called with an ascending array of such weights, or
\* moffat() or limitedBzip2 with a histogram of such counts and a small limit
InitWide ==
  /\ pc = "idle"
  /\ call = "none"
  /\ result = 0
  /\ newMaxLength = 0
  /\ oldMaxLength = 0
  /\ histNumBits = <<>>
  /\ NoHeap
  /\ \E n \in 0 .. MaxWideCodes :
       \/ /\ A \in { a \in Arrays(n, WideWeights) : IsAscending(a) }
          /\ maxLength = 0
          /\ histogram = <<>>
          /\ codeLengths = <<>>
          /\ before = A
       \/ /\ A = <<>>
          /\ maxLength \in 1 .. MaxLimit
          /\ histogram \in Arrays(n, {0} \cup WideWeights)
          /\ codeLengths = [i \in DOMAIN histogram |-> StaleLength]
          /\ before = codeLengths

NextWide == CallMoffatSortedInPlace \/ CallMoffat \/ CallLimitedBzip2

SpecWide == InitWide /\ [][NextWide]_vars

\* ------------------------------------------------- claims on the kernels
LimitedKernels ==
  {"limitedJpeg", "limitedMiniz", "limitedBzip2", "limitedKraft", "limitedKraftHeap"}

\* M, the number of nonzero frequencies
NumUsed == Cardinality(NonZero(histogram))

\* 1 <= L <= 63 and 2^L >= M >= 1
Feasible ==
  /\ maxLength >= 1
  /\ maxLength <= HistSize - 1
  /\ NumUsed >= 1
  /\ (maxLength >= IntBits - 1 \/ 2 ^ maxLength >= NumUsed)

Returned(names) == pc = "returned" /\ call \in names

\* how many used symbols have each length
UsedLengths ==
  [l \in 0 .. HistSize - 1 |->
     Cardinality({ i \in NonZero(histogram) : codeLengths[i] = l })]

\* sum over the used symbols of 2^-len[i] is at most 1, in units of 2^-63
UsedKraftHolds ==
  /\ \A i \in NonZero(histogram) : codeLengths[i] \in 0 .. HistSize - 1
  /\ WLeq(KraftUnits(UsedLengths, HistSize - 1, 0), WShl(WOne, HistSize - 1))

\* C1: on a feasible input (M >= 1 nonzero frequencies, 1 <= L <= 63,
\* 2^L >= M) each limited kernel returns code lengths that satisfy the Kraft
\* inequality: the sum over the used symbols of 2^(maxBits - len[i]) is at
\* most 2^maxBits.
C1_KraftInequality ==
  (Returned(LimitedKernels) /\ Feasible) => UsedKraftHolds

\* C2: on a feasible input, after any kernel len[i] = 0 holds exactly for the
\* symbols with freq[i] = 0.
C2_ZeroIffUnused ==
  (Returned(LimitedKernels \cup {"moffat"}) /\ Feasible)
    => \A i \in DOMAIN histogram : (codeLengths[i] = 0) <=> (histogram[i] = 0)

\* C3: on a feasible input, after a limited kernel every used symbol has a
\* length between 1 and L.
C3_LengthBound ==
  (Returned(LimitedKernels) /\ Feasible)
    => \A i \in NonZero(histogram) : codeLengths[i] >= 1 /\ codeLengths[i] <= maxLength

RECURSIVE MaxOver(_, _)
MaxOver(f, n) == IF n = 0 THEN 0 ELSE Max(f[n - 1], MaxOver(f, n - 1))

\* C4: on a feasible input, the value a kernel returns is the maximum of
\* len[i] over all symbols i in 0 .. N-1.
C4_ReportedMaximum ==
  (Returned(LimitedKernels \cup {"moffat"}) /\ Feasible)
    => result = MaxOver(codeLengths, NumCodes(codeLengths))

C4_Witness ==
  /\ Returned({"limitedKraft"})
  /\ Feasible
  /\ NumUsed = 3
  /\ NumUsed < NumCodes(histogram)
  /\ result = 2
  /\ result < maxLength

\* C5: with exactly one nonzero frequency and L in 1 .. 63, every kernel
\* writes length 1 for that symbol, 0 for all others, and returns 1.
C5_SingleSymbol ==
  (/\ call \in LimitedKernels \cup {"moffat"}
   /\ NumUsed = 1
   /\ maxLength >= 1
   /\ maxLength <= HistSize - 1)
    => (/\ pc = "returned"
        /\ result = 1
        /\ \A i \in DOMAIN histogram :
             codeLengths[i] = IF histogram[i] # 0 THEN 1 ELSE 0)

\* sum_i freq[i] * len[i]
EncodedSize(lens) == WeightedTotal(histogram, lens)

\* C8: when L <= 63 is at least the maximum length moffat() produces for the
\* histogram, limitedJpeg, limitedMiniz and limitedBzip2 return the value
\* moffat() returns, and their encoded size sum_i freq[i] * len[i] is Moffat's.
C8_NoLimitingNeeded ==
  (call \in {"limitedJpeg", "limitedMiniz", "limitedBzip2"} /\ maxLength <= HistSize - 1)
    => \A mapping \in SortedMappings(histogram) :
         Moffat(histogram, before, mapping).result <= maxLength
           => (/\ pc = "returned"
               /\ result = Moffat(histogram, before, mapping).result
               /\ EncodedSize(codeLengths)
                    = EncodedSize(Moffat(histogram, before, mapping).codeLengths))

\* the limit is exactly the longest code of Moffat's
C8_Witness ==
  /\ Returned({"limitedBzip2"})
  /\ NumUsed = 4
  /\ maxLength = 3
  /\ result = 3
  /\ EncodedSize(codeLengths) < 2 * SumOver(histogram, DOMAIN histogram)

\* ------------------------------------------- claims on the in-place reducers
\* number of codes in a length histogram, sum_{l >= 1} bits[l]
CodeCount(bits) == RangeSum(bits, 1, HistSize - 1)

\* sum_{l >= 1} bits[l] * 2^-l <= 1.  More than 2^l codes of l bits break it
\* at once; otherwise every term is at most 2^64 units of 2^-63.
KraftAtMostOne(bits) ==
  /\ \A l \in 1 .. HistSize - 1 : l < IntBits - 1 => (bits[l] >= 0 /\ bits[l] <= 2 ^ l)
  /\ WLeq(KraftUnits(bits, HistSize - 1, 1), WShl(WOne, HistSize - 1))

\* a prefix code of that many codes with no code longer than newMaxLength exists
FitsLimit(bits) ==
  CodeCount(bits) >= 0 /\ WLeq(WNat(CodeCount(bits)), WShl(WOne, newMaxLength))

ReducerReturned(name) ==
  /\ pc = "returned"
  /\ call = name
  /\ before[0] = 0
  /\ newMaxLength > 0
  /\ newMaxLength <= oldMaxLength
  /\ oldMaxLength <= HistSize - 1

C10_MinizPostcondition ==
  (/\ ReducerReturned("limitedMinizInPlace")
   /\ newMaxLength >= 2
   /\ KraftAtMostOne(before)
   /\ FitsLimit(before))
    => (/\ KraftAtMostOne(histNumBits)
        /\ \A l \in (newMaxLength + 1) .. (HistSize - 1) : histNumBits[l] = 0
        /\ CodeCount(histNumBits) = CodeCount(before))

\* the histogram on entry is that of a complete prefix code whose longest
\* code has oldL bits, and 2 <= newL < oldL with at most 2^newL codes
CompleteAndShortened ==
  /\ before[0] = 0
  /\ newMaxLength >= 2
  /\ newMaxLength < oldMaxLength
  /\ oldMaxLength <= HistSize - 1
  /\ before[oldMaxLength] # 0
  /\ KraftExact(before, oldMaxLength)
  /\ FitsLimit(before)

\* what limitedMinizInPlace makes of the histogram on entry
MinizOfBefore(oversized) ==
  LimitedMinizInPlace(newMaxLength, oldMaxLength, before, oversized)

\* C11: for every histogram of a complete prefix code and every newL with
\* 2 <= newL < oldL and at most 2^newL codes, limitedJpegInPlace returns, and
\* limitedMinizInPlace leaves the same histogram and returns the same value.
C11_ReducersAgree ==
  (call = "limitedJpegInPlace" /\ CompleteAndShortened)
    => /\ pc = "returned"
       /\ \A oversized \in OversizedShifts :
            /\ ~MinizOfBefore(oversized).hung
            /\ MinizOfBefore(oversized).bits = histNumBits
            /\ MinizOfBefore(oversized).result = result

\* the same for the histograms whose shifts stay inside an unsigned int
C11_AgreeBelowIntBits ==
  (call = "limitedJpegInPlace" /\ CompleteAndShortened /\ oldMaxLength < IntBits)
    => /\ pc = "returned"
       /\ \A oversized \in OversizedShifts :
            /\ ~MinizOfBefore(oversized).hung
            /\ MinizOfBefore(oversized).bits = histNumBits
            /\ MinizOfBefore(oversized).result = result

\* ------------------------------------------------------ claims on failure
\* N = 0, or all frequencies zero, or L = 0, or L > 63
Degenerate ==
  \/ NumCodes(histogram) = 0
  \/ NumUsed = 0
  \/ maxLength = 0
  \/ maxLength > HistSize - 1

\* C12: every length-limited kernel returns 0 whenever N = 0, all frequencies
\* are zero, L = 0 or L > 63; moffat returns 0 whenever N = 0 or all
\* frequencies are zero.
C12_FailureSentinel ==
  /\ (call \in LimitedKernels /\ Degenerate) => (pc = "returned" /\ result = 0)
  /\ (call = "moffat" /\ NumUsed = 0) => (pc = "returned" /\ result = 0)

\* the part of C12 that is about empty input: N = 0 or all frequencies zero
C12_EmptyInput ==
  (call # "none" /\ NumUsed = 0) => (pc = "returned" /\ result = 0)

AllZero(lens) == \A i \in DOMAIN lens : lens[i] = 0

\* C13: whenever a kernel returns 0, the output buffer is either entirely
\* zero or what it was before the call, never partially written.
C13_AtomicOnError ==
  (pc = "returned" /\ call # "none" /\ result = 0)
    => (AllZero(codeLengths) \/ codeLengths = before)

\* a limited kernel gives up after it cleared the output: three used symbols
\* do not fit a limit of one bit
C13_Witness ==
  /\ Returned({"limitedJpeg", "limitedMiniz"})
  /\ result = 0
  /\ maxLength = 1
  /\ NumUsed = 3
  /\ NumCodes(histogram) = 4
  /\ AllZero(codeLengths)
  /\ codeLengths # before

\* ---------------------------------------------------- claims on termination
\* C14: for every histogram with at least one nonzero frequency and every L
\* in 1..63 the rescale-and-rerun loop of limitedBzip2 terminates and the
\* function returns.
C14_Bzip2Converges ==
  (call = "limitedBzip2" /\ NumUsed >= 1 /\ maxLength >= 1 /\ maxLength <= HistSize - 1)
    => pc = "returned"

\* the same when a code of at most L bits exists, 2^L >= M
C14_ConvergesWhenFeasible ==
  (call = "limitedBzip2" /\ Feasible) => pc = "returned"

\* limitedKraft's state after its expansion loop, for the call of this state
ExtendedOfCall(oversized) ==
  KraftExtended(maxLength, histogram, before, IntShlOne(maxLength, oversized),
                Entropies(histogram))

\* C15: for 1 <= L <= 63 and 2^L >= M >= 1 the expansion loop of limitedKraft
\* ends after finitely many passes, with spent <= 2^L.
C15_ExpansionTerminates ==
  (call = "limitedKraft" /\ Feasible)
    => \A oversized \in OversizedShifts :
         /\ ~ExtendedOfCall(oversized).hung
         /\ WLeq(ExtendedOfCall(oversized).spent, WShl(WOne, maxLength))

\* the same for the limits at which 1 << maxLength is 2^maxLength
C15_TerminatesBelowIntBits ==
  (call = "limitedKraft" /\ Feasible /\ maxLength < IntBits - 1)
    => \A oversized \in OversizedShifts :
         /\ ~ExtendedOfCall(oversized).hung
         /\ WLeq(ExtendedOfCall(oversized).spent, WShl(WOne, maxLength))

\* ------------------------------------------------------ claims on the heap
\* the children of position c that lie below heap.size
Children(c) == { d \in {2 * c + 1, 2 * c + 2} : d < theHeap.size }

\* C16: from an empty heap, after any sequence of heap_insert and
\* heap_removeTop (on a non-empty heap) no key is less than the keys of its
\* children, so keys[0] is a maximal key, and each stored value is paired
\* with the key it was inserted with.
C16_MaxHeap ==
  /\ \A c \in 0 .. theHeap.size - 1 :
       /\ \A d \in Children(c) : ~FLess(theHeap.keys[c], theHeap.keys[d])
       /\ ~FLess(theHeap.keys[0], theHeap.keys[c])
       /\ theHeap.keys[c] = paired[theHeap.values[c]]
  /\ Cardinality(Stored) = theHeap.size

\* a full heap lost its top and the last item sank below a bigger one
C16_Witness ==
  /\ call = "heap_removeTop"
  /\ theHeap.size = 2
  /\ FLess(theHeap.keys[1], theHeap.keys[0])
  /\ theHeap.values[1] = theHeap.values[2]

\* limitedKraftHeap's state after its first loop and after its second loop,
\* for the call of this state
RoundedOfCall(oversized) ==
  HeapRounded(maxLength, histogram, before, IntShlOne(maxLength, oversized),
              Entropies(histogram))

HeapExtendedOfCall(oversized) ==
  HeapExtended(maxLength, histogram, before, IntShlOne(maxLength, oversized),
               Entropies(histogram))

\* the heap never held more than N items: the first loop only inserts, and
\* every later round removes the top before it may insert; and heap.size,
\* a size_t, was never decremented below 0, which leaves it far above N
WithinCapacity(oversized) ==
  /\ RoundedOfCall(oversized).heap.size <= NumCodes(histogram)
  /\ ~HeapExtendedOfCall(oversized).undefined

\* C17: at every point of every limitedKraftHeap call with 1 <= L <= 63
\* heap.size <= N.
C17_HeapCapacity ==
  (call = "limitedKraftHeap" /\ maxLength >= 1 /\ maxLength <= HistSize - 1)
    => \A oversized \in OversizedShifts : WithinCapacity(oversized)

\* the same when a code of at most L bits exists, 2^L >= M >= 1
C17_CapacityWhenFeasible ==
  (call = "limitedKraftHeap" /\ Feasible)
    => \A oversized \in OversizedShifts : WithinCapacity(oversized)

\* ------------------------------------------------ claims on 32-bit cells
\* the internal node made in round next of phase 1 weighs exactly what its
\* two children weigh together
NodeIsExact(n, st, next) ==
  U32Value(MoffatPhase1Step(n, st, next).A[next])
    = WAdd(U32Value(MoffatFirstChild(n, st, next).A[next]),
           U32Value(MoffatSecondWeight(n, MoffatFirstChild(n, st, next), next)))

\* the same for every round from next on
RECURSIVE NodesAreExact(_, _, _)
NodesAreExact(n, st, next) ==
  next >= n - 1
    \/ (NodeIsExact(n, st, next)
         /\ NodesAreExact(n, MoffatPhase1Step(n, st, next), next + 1))

\* the sum of the weights of arr, exactly
TotalWeight(arr) ==
  WSum([k \in DOMAIN arr |-> U32Value(arr[k])], 0, Cardinality(DOMAIN arr) - 1)

\* C20: for every ascending array of positive weights (whose sum fits in 64
\* bits) each internal-node weight written to A[next] in phase 1 is the exact
\* sum of its two children: the unsigned 32-bit cell never overflows.
C20_NoWrapAround ==
  (call = "moffatSortedInPlace" /\ DOMAIN before = DOMAIN A /\ IsAscending(before))
    => NodesAreExact(Cardinality(DOMAIN before), [A |-> before, leaf |-> 0, root |-> 0], 0)

\* the same for the arrays whose sum fits in the 32 bits of a cell
C20_ExactWhenSumFits ==
  (call = "moffatSortedInPlace" /\ DOMAIN before = DOMAIN A /\ IsAscending(before)
     /\ WLess(TotalWeight(before), WShl(WOne, IntBits)))
    => NodesAreExact(Cardinality(DOMAIN before), [A |-> before, leaf |-> 0, root |-> 0], 0)

\* compareKeyValue tells the order of two unsigned int keys
ComparesRight(aKey, bKey) ==
  /\ (CompareKeyValue(aKey, bKey) < 0) = U32Less(aKey, bKey)
  /\ (CompareKeyValue(aKey, bKey) = 0) = (aKey = bKey)
  /\ (CompareKeyValue(aKey, bKey) > 0) = U32Less(bKey, aKey)

\* every order qsort may leave the mapping in holds each used symbol once,
\* in non-decreasing order of the keys
SortedView ==
  \A mapping \in SortedMappings(histogram) :
    /\ Range(mapping) = NonZero(histogram)
    /\ Cardinality(DOMAIN mapping) = NumUsed
    /\ IsAscending(SortedKeys(histogram, mapping))

\* C18: for every histogram of unsigned 32-bit frequencies the mapping array
\* after qsort holds exactly the M nonzero entries in non-decreasing key
\* order, and compareKeyValue(a, b) is negative, zero or positive exactly
\* when a.key is less than, equal to or greater than b.key.
C18_SortedAscending ==
  call = "moffat"
    => /\ SortedView
       /\ \A i, j \in NonZero(histogram) : ComparesRight(histogram[i], histogram[j])

\* the same for the histograms whose counts are all below 2^31
C18_AscendingBelowSignBit ==
  (call = "moffat" /\ \A i \in DOMAIN histogram : histogram[i] >= 0)
    => /\ SortedView
       /\ \A i, j \in NonZero(histogram) : ComparesRight(histogram[i], histogram[j])

\* ------------------------------------------------- claims on a second call
\* C19: after limitedJpegInPlace or limitedMinizInPlace returned m > 0,
\* calling the same reducer again on the resulting bits[] with oldL = m and
\* any newL >= m leaves every entry of bits[] unchanged.
C19_Idempotent ==
  pc = "repeated" => histNumBits = before

\* the second call was given a limit above the length the first one returned
C19_Witness ==
  /\ pc = "repeated"
  /\ call = "limitedJpegInPlace"
  /\ oldMaxLength = 3
  /\ newMaxLength = 4
  /\ histNumBits[3] >= 4
  /\ histNumBits = before

\* ------------------------------------------------ claims on infeasible limits
\* 1 <= L <= 63 and 2^L < M: no prefix code with lengths <= L exists
Infeasible ==
  /\ maxLength >= 1
  /\ maxLength < IntBits - 1
  /\ 2 ^ maxLength < NumUsed

\* C21: for every histogram with M nonzero frequencies and every L in 1..63
\* with 2^L < M, each of limitedJpeg, limitedMiniz, limitedBzip2, limitedKraft
\* and limitedKraftHeap returns 0.
C21_InfeasibleReported ==
  (call \in LimitedKernels /\ Infeasible) => (pc = "returned" /\ result = 0)

\* the part of C21 that the code keeps: limitedJpeg and limitedMiniz return 0
\* when the limit is a single bit
C21_OneBitReported ==
  (call \in {"limitedJpeg", "limitedMiniz"} /\ Infeasible /\ maxLength = 1)
    => (pc = "returned" /\ result = 0)

\* limitedJpeg returns a nonzero maxBits with lengths that violate Kraft
C21_NoBrokenCode ==
  (Returned({"limitedJpeg"}) /\ Infeasible /\ result # 0) => UsedKraftHolds

\* ------------------------------------------- claims on the reducers' steps
\* limitedjpegdeflate.c 94-104: the cells the transformation takes from hold
\* what it takes, and the shorter code it found has a length of 1 or more
JpegStepFits(bits, i, j) ==
  /\ bits[i] >= 2
  /\ j >= 1
  /\ bits[j] >= 1

\* limitedjpegdeflate.c 79-105: every transformation of the loop is such a step
RECURSIVE JpegStepsFit(_, _, _)
JpegStepsFit(newMax, i, bits) ==
  IF i > newMax
  THEN IF bits[i] = 0 THEN JpegStepsFit(newMax, i - 1, bits)
       ELSE /\ JpegStepFits(bits, i, JpegShorter(bits, i - 2))
            /\ JpegStepsFit(newMax, i, JpegMove(bits, i, JpegShorter(bits, i - 2)))
  ELSE TRUE

\* limitedjpegdeflate.c 170-171: the length i at which the for loop finds a
\* second code, 0 when it finds none
RECURSIVE MinizShorter(_, _)
MinizShorter(bits, i) ==
  IF i > 0 /\ bits[i] = 0 THEN MinizShorter(bits, i - 1) ELSE i

\* limitedjpegdeflate.c 163-192: in every round of the loop there is a code of
\* the maximum length to select and a second, shorter code of 1 bit or more
RECURSIVE MinizStepsFit(_, _, _, _)
MinizStepsFit(newMax, bits, total, one) ==
  IF WLess(one, total)
  THEN /\ bits[newMax] >= 1
       /\ MinizShorter(Bump(bits, newMax, -1), newMax - 1) >= 1
       /\ MinizStepsFit(newMax, MinizExtendShorter(Bump(bits, newMax, -1), newMax - 1),
                        U64Sub(total, WOne), one)
  ELSE TRUE

\* the same for a whole call of limitedMinizInPlace that gets past its early
\* returns (limitedjpegdeflate.c 150-192)
MinizCallFits(newMax, oldMax, bits, oversized) ==
  MinizStepsFit(newMax, MinizCollapse(newMax, oldMax, bits, newMax + 1),
                MinizTotal(newMax, MinizCollapse(newMax, oldMax, bits, newMax + 1),
                           newMax, oversized),
                U64Shl(WOne, newMax))

\* C22: when the input is the length histogram of a complete prefix code
\* (bits[0] = 0, Kraft sum exactly 1, oldL the largest used length) and
\* 2 <= newL < oldL with at most 2^newL codes, every step of limitedJpegInPlace
\* and of limitedMinizInPlace decrements entries that are large enough, picks
\* a shorter code of length >= 1, and bits[0] stays 0.
C22_NoUnderflow ==
  CompleteAndShortened =>
    /\ call = "limitedJpegInPlace"
         => JpegStepsFit(newMaxLength, oldMaxLength, before)
    /\ call = "limitedMinizInPlace"
         => \A oversized \in OversizedShifts :
              MinizCallFits(newMaxLength, oldMaxLength, before, oversized)
    /\ call # "none" => (pc = "returned" /\ histNumBits[0] = 0)

\* limitedMinizInPlace shortened the one-sided code of 5 bits to 3 bits in
\* two rounds of its loop
C22_Witness ==
  /\ pc = "returned"
  /\ call = "limitedMinizInPlace"
  /\ CompleteAndShortened
  /\ newMaxLength = 3
  /\ oldMaxLength = 5
  /\ before = Histogram(OneSided(5))
  /\ histNumBits = Histogram([l \in 1 .. 3 |-> IF l = 1 THEN 0 ELSE 2 * (l - 1)])
  /\ histNumBits[0] = 0

\* ------------------------------------------- claims on MiniZ's Kraft sum
\* limitedjpegdeflate.c 158-192: total is sum_{l = 1..newL} bits[l] * 2^(newL-l)
\* after the initial accumulation and after every round of the loop
RECURSIVE MinizTotalsExact(_, _, _, _)
MinizTotalsExact(newMax, bits, total, one) ==
  /\ total = KraftUnits(bits, newMax, 1)
  /\ WLess(one, total)
       => MinizTotalsExact(newMax,
                           MinizExtendShorter(Bump(bits, newMax, -1), newMax - 1),
                           U64Sub(total, WOne), one)

\* the same for a whole call of limitedMinizInPlace that gets past its early
\* returns (limitedjpegdeflate.c 150-192)
MinizCallExact(newMax, oldMax, bits, oversized) ==
  MinizTotalsExact(newMax, MinizCollapse(newMax, oldMax, bits, newMax + 1),
                   MinizTotal(newMax, MinizCollapse(newMax, oldMax, bits, newMax + 1),
                              newMax, oversized),
                   U64Shl(WOne, newMax))

\* a call that the source documents as valid and that reaches the Kraft sum:
\* bits[0] = 0, Kraft sum at most 1, 2 <= newL < oldL <= 63, at most 2^newL codes
ValidAndShortened ==
  /\ before[0] = 0
  /\ newMaxLength >= 2
  /\ newMaxLength < oldMaxLength
  /\ oldMaxLength <= HistSize - 1
  /\ KraftAtMostOne(before)
  /\ FitsLimit(before)

\* C23: for every valid call of limitedMinizInPlace with newL <= 63 the
\* variable total equals sum_{l = 1..newL} bits[l] * 2^(newL - l) after the
\* initial accumulation and after every iteration of the balancing loop.
C23_TotalExact ==
  (call = "limitedMinizInPlace" /\ ValidAndShortened)
    => \A oversized \in OversizedShifts :
         MinizCallExact(newMaxLength, oldMaxLength, before, oversized)

\* the same for the limits at which no term is shifted out of its 32 bits
C23_ExactBelowIntBits ==
  (call = "limitedMinizInPlace" /\ ValidAndShortened /\ newMaxLength < IntBits)
    => \A oversized \in OversizedShifts :
         MinizCallExact(newMaxLength, oldMaxLength, before, oversized)

\* ------------------------------------------- claims on the Kraft budget
\* C24: in limitedKraft and limitedKraftHeap, for every L in 1..63 the 64-bit
\* variable one, computed as the int expression 1 << maxLength, equals 2^L.
C24_BudgetExact ==
  (/\ call \in {"limitedKraft", "limitedKraftHeap"}
   /\ maxLength >= 1
   /\ maxLength <= HistSize - 1)
    => \A oversized \in OversizedShifts :
         IntShlOne(maxLength, oversized) = WShl(WOne, maxLength)

\* the same for the limits at which 1 << maxLength stays inside an int
C24_ExactBelowIntBits ==
  (/\ call \in {"limitedKraft", "limitedKraftHeap"}
   /\ maxLength >= 1
   /\ maxLength < IntBits - 1)
    => \A oversized \in OversizedShifts :
         IntShlOne(maxLength, oversized) = WShl(WOne, maxLength)

\* ------------------------------------------- claims on BZIP2's rescaling
\* a weight after that many rounds of "weight = 1 + (weight / DIVIDE_BY)"
\* (limitedbzip2.c 107-109), which leaves the weights 1 and 2 as they are
RECURSIVE RescaledTimes(_, _)
RescaledTimes(weight, rounds) ==
  IF rounds = 0 \/ weight \in {1, 2} THEN weight
  ELSE RescaledTimes(U32Add(1, U32Half(weight)), rounds - 1)

\* what moffatSortedInPlace asks of the array it is passed after that many
\* rounds (moffat.h 11-15), and sorted[k] is still the weight of the symbol
\* mapping[k].value
KeepsPrecondition(hist, mapping, keys, rounds) ==
  /\ \A k \in DOMAIN keys : keys[k] # 0
  /\ IsAscending(keys)
  /\ \A k \in DOMAIN keys : keys[k] = RescaledTimes(hist[mapping[k]], rounds)

\* limitedbzip2.c 87-119: every array that the loop passes to
\* moffatSortedInPlace is such an array; r is what moffatSortedInPlace made
\* of the keys of the round before
RECURSIVE RoundsKeepPrecondition(_, _, _, _, _, _)
RoundsKeepPrecondition(maxLen, hist, mapping, keys, r, rounds) ==
  IF ~TooLong(r.result, maxLen) THEN TRUE
  ELSE IF Rescale(keys) = keys THEN KeepsPrecondition(hist, mapping, keys, rounds + 1)
  ELSE /\ KeepsPrecondition(hist, mapping, Rescale(keys), rounds + 1)
       /\ RoundsKeepPrecondition(maxLen, hist, mapping, Rescale(keys),
                                 MoffatSortedInPlace(Cardinality(DOMAIN keys), Rescale(keys)),
                                 rounds + 1)

\* the same for a whole call of limitedBzip2 (limitedbzip2.c 84-119)
Bzip2KeepsPrecondition(maxLen, hist, mapping) ==
  RoundsKeepPrecondition(maxLen, hist, mapping, SortedKeys(hist, mapping),
                         MoffatSortedInPlace(Cardinality(NonZero(hist)),
                                             SortedKeys(hist, mapping)),
                         0)

\* C25: after every rescaling round of limitedBzip2 the array passed to
\* moffatSortedInPlace holds only weights >= 1, is in non-decreasing order,
\* and position k still belongs to the symbol mapping[k].value.
C25_RescalingKeepsOrder ==
  (call = "limitedBzip2" /\ NumUsed >= 1)
    => \A mapping \in SortedMappings(histogram) :
         Bzip2KeepsPrecondition(maxLength, histogram, mapping)

\* the same for the histograms whose counts are all below 2^31
C25_KeepsOrderBelowSignBit ==
  (call = "limitedBzip2" /\ NumUsed >= 1 /\ \A i \in DOMAIN histogram : histogram[i] >= 0)
    => \A mapping \in SortedMappings(histogram) :
         Bzip2KeepsPrecondition(maxLength, histogram, mapping)

\* ------------------------------------------- claims on limitedImpl's scatter
\* limitedjpegdeflate.c 308-321 for a call of limitedImpl: how many symbols
\* were still to come when "reduce" went below histNumBits[0], and -1 when
\* it never did or when the call returned before that loop
ScatterLeft(algorithm, maxLen, hist, mapping, oversized) ==
  LET r       == MoffatSortedInPlace(Cardinality(NonZero(hist)), SortedKeys(hist, mapping))
      reduced == Algorithm(algorithm, maxLen, r.result, LengthHistogram(r.A), oversized)
  IN  IF maxLen = 0 \/ maxLen > HistSize - 1 \/ NonZero(hist) = {} THEN -1
      ELSE IF r.result <= maxLen \/ r.result > HistSize - 1 THEN -1
      ELSE IF reduced.hung \/ reduced.result = 0 THEN -1
      ELSE AssignLongest(mapping, 0, reduced.result, reduced.bits,
                         [i \in DOMAIN hist |-> 0]).left

\* the reducer that limitedJpeg or limitedMiniz hands to limitedImpl
\* (limitedjpegdeflate.c 332-342)
ReducerOf(name) ==
  IF name = "limitedJpeg" THEN "limitedJpegInPlace" ELSE "limitedMinizInPlace"

\* C26: in the final loop of limitedImpl, for every feasible input every read
\* of histNumBits[reduce], the scan that follows the last symbol included,
\* uses an index in 1..newMax: reduce never reaches 0 and never wraps below 0.
C26_ScatterInside ==
  (call \in {"limitedJpeg", "limitedMiniz"} /\ Feasible)
    => \A mapping \in SortedMappings(histogram), oversized \in OversizedShifts :
         ScatterLeft(ReducerOf(call), maxLength, histogram, mapping, oversized) = -1

\* what the code keeps: on a feasible input reduce stays at 1 or above while
\* a symbol is still to come
C26_InsideBeforeLastSymbol ==
  (call \in {"limitedJpeg", "limitedMiniz"} /\ Feasible)
    => \A mapping \in SortedMappings(histogram), oversized \in OversizedShifts :
         ScatterLeft(ReducerOf(call), maxLength, histogram, mapping, oversized) <= 0

\* ------------------------------------------- claims on Moffat's code
\* the lengths in arr, none longer than top, fill the code space exactly:
\* sum_k 2^(top - arr[k]) = 2^top
FillsCodeSpace(arr, top) ==
  /\ \A k \in DOMAIN arr : arr[k] >= 1 /\ arr[k] <= top
  /\ SumOver([k \in DOMAIN arr |-> 2 ^ (top - arr[k])], DOMAIN arr) = 2 ^ top

\* C27: for every ascending array of M >= 2 strictly positive weights the
\* lengths written by moffatSortedInPlace satisfy the Kraft sum with
\* equality, and the number of symbols that have the maximum length is even.
C27_MoffatComplete ==
  (pc = "returned" /\ call = "moffatSortedInPlace" /\ NumSorted >= 2)
    => /\ FillsCodeSpace(A, result)
       /\ Cardinality({ k \in DOMAIN A : A[k] = result }) % 2 = 0

\* five equal weights: two codes of 3 bits and three of 2 bits
C27_Witness ==
  /\ pc = "returned"
  /\ call = "moffatSortedInPlace"
  /\ NumSorted = 5
  /\ before = [k \in 0 .. 4 |-> 1]
  /\ result = 3
  /\ Cardinality({ k \in DOMAIN A : A[k] = 3 }) = 2
  /\ Cardinality({ k \in DOMAIN A : A[k] = 2 }) = 3

\* ------------------------------------------- claims on the heap's top
\* the symbols that are in the heap
HeapValues(heap) == { heap.values[c] : c \in 0 .. heap.size - 1 }

\* limitedkraftheap.c 285-290: there is a top to take, and every used symbol
\* whose code may still be extended is in the heap
TopIsThere(maxLen, hist, st) ==
  /\ st.heap.size >= 1
  /\ \A i \in NonZero(hist) : st.lens[i] < maxLen => i \in HeapValues(st.heap)

\* limitedkraftheap.c 284-307: that holds whenever the loop finds spent > one
RECURSIVE TopIsAlwaysThere(_, _, _, _)
TopIsAlwaysThere(maxLen, hist, one, st) ==
  IF ~HeapExtending(one, st) THEN ~st.undefined
  ELSE /\ TopIsThere(maxLen, hist, st)
       /\ TopIsAlwaysThere(maxLen, hist, one, HeapExtendRound(maxLen, one, st))

OrderedKernels == {"moffat", "limitedJpeg", "limitedMiniz", "limitedBzip2"}

\* a more frequent symbol has no longer code than a less frequent one
RespectsOrder(hist, lengths) ==
  \A i \in NonZero(hist) : \A j \in NonZero(hist) :
    U32Less(hist[j], hist[i]) => lengths[i] <= lengths[j]

\* C29: moffat, limitedJpeg, limitedMiniz and limitedBzip2 leave, for every
\* input with 1 <= L <= 63 and 2^L >= M, lengths with len[i] <= len[j] for any
\* two used symbols with freq[i] > freq[j].
C29_RespectsOrder ==
  (call \in OrderedKernels /\ Feasible /\ pc = "returned")
    => RespectsOrder(histogram, codeLengths)

\* the same for the histograms whose counts are all below 2^31
C29_OrderBelowSignBit ==
  (call \in OrderedKernels /\ Feasible /\ pc = "returned"
     /\ \A i \in DOMAIN histogram : histogram[i] >= 0)
    => RespectsOrder(histogram, codeLengths)


====
